---- MODULE Spec2Model ----
(***************************************************************************)
(* The schema-to-AST translator of json-schema-to-typescript               *)
(* (src/src/parser.ts, the version that starts at line 589): parse,        *)
(* parseAsTypeWithCache, parseNonLiteral, newInterface, parseSchema,       *)
(* parseSuperTypes and ensureNamedInterface, run as a stack machine over a *)
(* heap of linked schema nodes and a heap of AST objects.  Object identity *)
(* is the index in the heap.                                               *)
(***************************************************************************)
EXTENDS Integers, Sequences, FiniteSets, TLC

VARIABLES
    schemas,     \* heap of schema objects; the input's nodes come first
    nInput,      \* number of nodes of the input graph (the rest are made by parse)
    options,     \* [unknownAny, unreachableDefinitions]
    asts,        \* heap of AST objects
    processed,   \* the cache: set of [schema, type, ast]
    usedNames,   \* the used-names set
    stack,       \* the call stack, top last
    ret,         \* AST returned by the call that just ended (0: none)
    status,      \* "running", "done", "error" or "overflow"
    result,      \* the AST parse returned for the root (0 until done)
    parseLog     \* history: [schema, ast, multi] of every parse(schema) that returned

vars == <<schemas, nInput, options, asts, processed, usedNames, stack, ret,
          status, result, parseLog>>

-----------------------------------------------------------------------------
(* Bounds *)

\* deepest call stack the machine follows; a deeper recursion is a stack overflow
MaxDepth == 12
\* largest minItems / maxItems drawn for an array schema
MaxItemsBound == 2

-----------------------------------------------------------------------------
(* Names.  A name is a string of letters followed by digits, kept as the   *)
(* letters and the number the digits spell (n = 0: no digits).             *)

NoName == [base |-> "", n |-> 0]

\* utils.toSafeString: the seed made an identifier (first letter upper-cased,
\* characters outside the alphabet dropped); different seeds can collide
toSafeString(seed) ==
    CASE seed = "a" -> [base |-> "A", n |-> 0]
      [] seed = "A" -> [base |-> "A", n |-> 0]
      [] seed = "A1" -> [base |-> "A", n |-> 1]
      [] seed = "b" -> [base |-> "B", n |-> 0]
      [] seed = "B" -> [base |-> "B", n |-> 0]
      [] seed = "k" -> [base |-> "K", n |-> 0]
      [] seed = "K" -> [base |-> "K", n |-> 0]
      [] seed = "child" -> [base |-> "Child", n |-> 0]
      [] seed = "[k: string]" -> [base |-> "KString", n |-> 0]
      [] seed = "^x" -> [base |-> "X", n |-> 0]
      [] seed = "^y" -> [base |-> "Y", n |-> 0]
      [] OTHER -> [base |-> seed, n |-> 0]

\* the text name followed by the decimal digits of counter
WithCounter(name, counter) ==
    [base |-> name.base,
     n |-> IF counter < 10 THEN name.n * 10 + counter ELSE name.n * 100 + counter]

\* utils.generateName: a name not yet used, recorded in the used-names set
generateName(from, used) ==
    LET name == toSafeString(from)
        free == {c \in 1..(Cardinality(used) + 1) : WithCounter(name, c) \notin used}
        counter == CHOOSE c \in free : \A d \in free : c <= d
        unique == IF name \in used THEN WithCounter(name, counter) ELSE name
    IN [name |-> unique, used |-> used \cup {unique}]

\* the name as it is derived, not checked against the used names
standaloneNameRaw(schema, keyNameFromDefinition, used) ==
    LET name == IF schema.title # "" THEN schema.title
                ELSE IF schema.id # "" THEN schema.id
                ELSE keyNameFromDefinition
    IN IF name # "" THEN [name |-> toSafeString(name), used |-> used]
       ELSE [name |-> NoName, used |-> used]

\* standaloneName: title, else id, else the definition key, made unique
standaloneName(schema, keyNameFromDefinition, used) ==
    LET name == IF schema.title # "" THEN schema.title
                ELSE IF schema.id # "" THEN schema.id
                ELSE keyNameFromDefinition
    IN IF name # "" THEN generateName(name, used)
       ELSE [name |-> NoName, used |-> used]

-----------------------------------------------------------------------------
(* Schema objects.  Absent attributes: "" for strings, 0 for a node, -1    *)
(* for a count, a has-flag for lists and tables.                           *)

EmptySchema ==
    [parent |-> 0, title |-> "", id |-> "", description |-> "",
     hasType |-> FALSE, typeIsList |-> FALSE, type |-> <<>>,
     hasEnum |-> FALSE, enum |-> <<>>,
     hasEnumNames |-> FALSE, tsEnumNames |-> <<>>,
     tsEnumRef |-> 0, tsType |-> "", ref |-> "",
     hasAllOf |-> FALSE, allOf |-> <<>>,
     hasAnyOf |-> FALSE, anyOf |-> <<>>,
     hasOneOf |-> FALSE, oneOf |-> <<>>,
     itemsKind |-> "absent", items |-> <<>>,
     additionalItems |-> "absent", additionalItemsNode |-> 0,
     minItems |-> -1, maxItems |-> -1,
     hasProperties |-> FALSE, properties |-> <<>>,
     hasPatternProperties |-> FALSE, patternProperties |-> <<>>,
     hasDefinitions |-> FALSE, definitions |-> <<>>,
     additionalProperties |-> "absent", additionalPropertiesNode |-> 0,
     propertyNames |-> 0, pattern |-> "", format |-> "",
     hasExtends |-> FALSE, extends |-> <<>>,
     hasRequired |-> FALSE, required |-> <<>>,
     tsExtendAllOf |-> FALSE]

\* the key name under which additionalProperties appear (utils.INDEX_KEY_NAME)
INDEX_KEY_NAME == "[k: string]"

\* JSONSchema.getRootSchema: follow the Parent links
RECURSIVE getRootSchema(_, _)
getRootSchema(heap, s) ==
    IF heap[s].parent = 0 THEN s ELSE getRootSchema(heap, heap[s].parent)

\* every node a schema object refers to
ChildrenOf(s) ==
    {s.allOf[i] : i \in 1..Len(s.allOf)} \cup {s.anyOf[i] : i \in 1..Len(s.anyOf)}
    \cup {s.oneOf[i] : i \in 1..Len(s.oneOf)} \cup {s.items[i] : i \in 1..Len(s.items)}
    \cup {s.extends[i] : i \in 1..Len(s.extends)}
    \cup {s.properties[i].node : i \in 1..Len(s.properties)}
    \cup {s.patternProperties[i].node : i \in 1..Len(s.patternProperties)}
    \cup {s.definitions[i].node : i \in 1..Len(s.definitions)}
    \cup ({s.additionalItemsNode, s.additionalPropertiesNode, s.propertyNames,
           s.tsEnumRef} \ {0})

\* the members of a set of nodes, in increasing order
InOrder(nodes) ==
    [i \in 1..Cardinality(nodes) |->
        CHOOSE n \in nodes : Cardinality({m \in nodes : m < n}) = i - 1]

\* getDefinitions(schema, isSchema, processed), the pending calls as a list:
\* a schema seen before adds nothing; otherwise its own definitions are
\* taken if isSchema holds, and every value it holds is walked with
\* isSchema = false and the same processed set
RECURSIVE getDefinitionsWalk(_, _, _)
getDefinitionsWalk(heap, calls, seen) ==
    IF calls = <<>> THEN <<>>
    ELSE LET call == Head(calls)
             nested == InOrder(ChildrenOf(heap[call.schema]))
         IN IF call.schema \in seen THEN getDefinitionsWalk(heap, Tail(calls), seen)
            ELSE (IF call.isSchema /\ heap[call.schema].hasDefinitions
                  THEN heap[call.schema].definitions ELSE <<>>)
                 \o getDefinitionsWalk(
                        heap,
                        [i \in 1..Len(nested) |-> [schema |-> nested[i], isSchema |-> FALSE]]
                            \o Tail(calls),
                        seen \cup {call.schema})

\* getDefinitions(root): isSchema defaults to true, processed to the empty set
getDefinitions(heap, root) ==
    getDefinitionsWalk(heap, <<[schema |-> root, isSchema |-> TRUE]>>, {})

\* findKey(definitions, _ => _ === schema): the first key whose node is s
keyNameFromDefinitionOf(heap, s) ==
    LET defs == getDefinitions(heap, getRootSchema(heap, s))
        hits == {i \in 1..Len(defs) : defs[i].node = s}
    IN IF hits = {} THEN ""
       ELSE defs[CHOOSE i \in hits : \A j \in hits : i <= j].key

-----------------------------------------------------------------------------
(* The classifier (typesOfSchema): one rule after the other, each adding   *)
(* at most one tag; no tag at all gives ANY.                               *)

IsObjectShaped(s) ==
    \/ (s.hasType /\ ~s.typeIsList /\ s.type = <<"object">>)
    \/ s.hasProperties \/ s.hasPatternProperties
    \/ s.additionalProperties # "absent" \/ s.propertyNames # 0
    \/ s.hasExtends \/ s.hasRequired

PrimitiveTag(t) ==
    CASE t = "string" -> "STRING"
      [] t = "number" -> "NUMBER"
      [] t = "integer" -> "NUMBER"
      [] t = "boolean" -> "BOOLEAN"
      [] t = "null" -> "NULL"
      [] t = "never" -> "NEVER"
      [] OTHER -> "OBJECT"

\* the tags of the rules that fire, in rule order
RuleTags(s) ==
    LET single == s.hasType /\ ~s.typeIsList
        r1 == IF s.tsType # "" THEN <<"CUSTOM_TYPE">> ELSE <<>>
        r2 == IF s.ref # "" THEN <<"REFERENCE">> ELSE <<>>
        r3 == IF s.hasAllOf THEN <<"ALL_OF">> ELSE <<>>
        r4 == IF s.hasAnyOf THEN <<"ANY_OF">> ELSE <<>>
        r5 == IF s.hasOneOf THEN <<"ONE_OF">> ELSE <<>>
        r6 == IF s.hasEnum
              THEN (IF s.hasEnumNames THEN <<"NAMED_ENUM">> ELSE <<"UNNAMED_ENUM">>)
              ELSE <<>>
        r7 == IF s.hasType /\ s.typeIsList THEN <<"UNION">> ELSE <<>>
        r8 == IF (single /\ s.type = <<"array">>) \/ s.itemsKind # "absent"
              THEN (IF s.itemsKind = "absent" THEN <<"UNTYPED_ARRAY">>
                    ELSE <<"TYPED_ARRAY">>)
              ELSE <<>>
        r9 == IF IsObjectShaped(s)
              THEN (IF (s.title # "" \/ s.id # "") /\ Len(s.properties) > 0
                    THEN <<"NAMED_SCHEMA">> ELSE <<"UNNAMED_SCHEMA">>)
              ELSE <<>>
        r10 == IF single /\ s.type \notin {<<"array">>, <<"object">>}
               THEN <<PrimitiveTag(s.type[1])>> ELSE <<>>
    IN r1 \o r2 \o r3 \o r4 \o r5 \o r6 \o r7 \o r8 \o r9 \o r10

\* the tags from the last rule to the first
typesOfSchemaReversed(s) ==
    IF RuleTags(s) = <<>> THEN <<"ANY">>
    ELSE [i \in 1..Len(RuleTags(s)) |-> RuleTags(s)[Len(RuleTags(s)) + 1 - i]]

\* a classifier that names an object schema after its place under the root
typesOfSchemaByPlace(s) ==
    IF RuleTags(s) = <<>> THEN <<"ANY">>
    ELSE IF RuleTags(s) = <<"UNNAMED_SCHEMA">> /\ s.parent = 1 /\ Len(s.properties) > 0
         THEN <<"NAMED_SCHEMA">>
         ELSE RuleTags(s)

typesOfSchema(s) == IF RuleTags(s) = <<>> THEN <<"ANY">> ELSE RuleTags(s)

-----------------------------------------------------------------------------
(* AST objects.  type "" is the empty object {} (a placeholder).  params   *)
(* holds AST ids (UNION, INTERSECTION, TUPLE, TYPE_REFERENCE; one id for   *)
(* ARRAY), iparams holds param objects (INTERFACE) or name/value pairs     *)
(* (ENUM).                                                                 *)

EmptyAST ==
    [type |-> "", keyName |-> "", standaloneName |-> NoName, comment |-> <<>>,
     params |-> <<>>, iparams |-> <<>>, spreadParam |-> 0, paramsKeyType |-> 0,
     superTypes |-> <<>>, minItems |-> -1, maxItems |-> -1, lit |-> "",
     custom |-> "", refParam |-> 0]

\* the AST constants of types/AST.ts, allocated once, shared by identity
T_ANY == 1
T_UNKNOWN == 2
T_ANY_ADDITIONAL_PROPERTIES == 3
T_UNKNOWN_ADDITIONAL_PROPERTIES == 4

InitialASTs ==
    << [EmptyAST EXCEPT !.type = "ANY"],
       [EmptyAST EXCEPT !.type = "UNKNOWN"],
       [EmptyAST EXCEPT !.type = "ANY", !.keyName = INDEX_KEY_NAME],
       [EmptyAST EXCEPT !.type = "UNKNOWN", !.keyName = INDEX_KEY_NAME] >>

hasStandaloneName(ast) == ast.standaloneName # NoName

\* comment: schema.description
DescriptionComment(schema) ==
    IF schema.description = "" THEN <<>>
    ELSE << [kind |-> "description", of |-> NoName, key |-> schema.description] >>

\* ast.comment = ast.comment ? `${ast.comment}\n\n${comment}` : comment
AddComment(ast, kind, parentSchemaName, key) ==
    [ast EXCEPT !.comment =
        Append(@, [kind |-> kind, of |-> parentSchemaName, key |-> key])]

Param(ast, keyName, isRequired, isPatternProperty, isUnreachableDefinition) ==
    [ast |-> ast, keyName |-> keyName, isRequired |-> isRequired,
     isPatternProperty |-> isPatternProperty,
     isUnreachableDefinition |-> isUnreachableDefinition,
     mappedOf |-> NoName, mappedExclude |-> <<>>]

\* parseLiteral
parseLiteral(lit, keyName) ==
    [EmptyAST EXCEPT !.keyName = keyName, !.lit = lit, !.type = "LITERAL"]

\* the fields every case of parseNonLiteral sets
BaseAST(schema, keyName, name, type) ==
    [EmptyAST EXCEPT !.comment = DescriptionComment(schema), !.keyName = keyName,
                     !.standaloneName = name, !.type = type]

\* options.unknownAny ? T_UNKNOWN : T_ANY
AnySentinel(opts) == IF opts.unknownAny THEN T_UNKNOWN ELSE T_ANY

\* options.unknownAny ? T_UNKNOWN_ADDITIONAL_PROPERTIES : T_ANY_ADDITIONAL_PROPERTIES
AnyAdditionalProperties(opts) ==
    IF opts.unknownAny THEN T_UNKNOWN_ADDITIONAL_PROPERTIES
    ELSE T_ANY_ADDITIONAL_PROPERTIES

Max(a, b) == IF a >= b THEN a ELSE b

Includes(seq, x) == \E i \in 1..Len(seq) : seq[i] = x

SelectIdx(seq, Test(_)) ==
    LET hits == {i \in 1..Len(seq) : Test(seq[i])}
    IN IF hits = {} THEN 0 ELSE CHOOSE i \in hits : \A j \in hits : i <= j

MapSeq(seq, F(_)) == [i \in 1..Len(seq) |-> F(seq[i])]

FilterSeq(seq, Test(_)) ==
    LET f[i \in 0..Len(seq)] ==
            IF i = 0 THEN <<>>
            ELSE IF Test(seq[i]) THEN Append(f[i - 1], seq[i]) ELSE f[i - 1]
    IN f[Len(seq)]

-----------------------------------------------------------------------------
(* Call frames.  op "parse": a call of parse not yet begun; "multi": parse *)
(* on a schema with several tags, between its parseAsTypeWithCache calls;  *)
(* "pawc": a call of parseAsTypeWithCache not yet begun; "enter": the      *)
(* placeholder is installed, parseNonLiteral not yet begun; "body":        *)
(* parseNonLiteral between the parse calls for its children.               *)

EmptyFrame ==
    [op |-> "", schema |-> 0, lit |-> "", keyName |-> "", type |-> "",
     kind |-> "", ast |-> 0, name |-> NoName, todo |-> <<>>, results |-> <<>>,
     types |-> <<>>, logAs |-> 0]

ParseCall(node, lit, keyName) ==
    [EmptyFrame EXCEPT !.op = "parse", !.schema = node, !.lit = lit,
                       !.keyName = keyName]

\* a child still to be parsed: node (or the literal lit when node = 0), the
\* keyName handed to parse, and the key it is filed under
Task(role, node, lit, key, keyName) ==
    [role |-> role, node |-> node, lit |-> lit, key |-> key, keyName |-> keyName]

ChildTasks(role, nodes) == MapSeq(nodes, LAMBDA n : Task(role, n, "", "", ""))

\* the last flagged member instead of the first
extendsIndexOfLast(heap, schema) ==
    LET hits == {i \in 1..Len(schema.allOf) : heap[schema.allOf[i]].tsExtendAllOf}
    IN IF hits = {} THEN 0 ELSE CHOOSE i \in hits : \A j \in hits : j <= i

\* schema.allOf.findIndex(_ => _.tsExtendAllOf), 0 when there is none
extendsIndexOf(heap, schema) ==
    SelectIdx(schema.allOf, LAMBDA n : heap[n].tsExtendAllOf)

\* newInterface: propertyNames is a schema that is not pattern-only or format-only
UsesPropertyNames(heap, schema) ==
    /\ schema.propertyNames # 0
    /\ LET pn == heap[schema.propertyNames]
       IN ~((pn.pattern # "" \/ pn.format # "") /\ ~pn.hasEnum)

\* which branch of parseNonLiteral builds the AST for tag `type`
KindOf(heap, schema, type) ==
    CASE type = "ALL_OF" ->
            IF extendsIndexOf(heap, schema) > 0 THEN "ALL_OF_EXTENDS" ELSE "ALL_OF"
      [] type = "TYPED_ARRAY" ->
            IF schema.itemsKind = "list" THEN "TUPLE" ELSE "ARRAY"
      [] type = "UNNAMED_ENUM" ->
            IF schema.tsEnumRef # 0 THEN "ENUM_REF" ELSE "UNNAMED_ENUM"
      [] type \in {"NAMED_SCHEMA", "UNNAMED_SCHEMA"} ->
            IF UsesPropertyNames(heap, schema) THEN "INTERFACE_MAPPED" ELSE "INTERFACE"
      [] OTHER -> type

\* the second argument of standaloneName in each branch
NameFallback(heap, s, type, kind, keyName) ==
    LET keyNameFromDefinition == keyNameFromDefinitionOf(heap, s)
    IN CASE kind = "ALL_OF_EXTENDS" -> ""
         [] type = "NAMED_SCHEMA" -> ""
         [] type = "NAMED_ENUM" ->
               IF keyNameFromDefinition # "" THEN keyNameFromDefinition ELSE keyName
         [] OTHER -> keyNameFromDefinition

\* parseSchema: the parse calls it makes, in order
ParamTasks(schema, opts) ==
    MapSeq(schema.properties, LAMBDA p : Task("property", p.node, "", p.key, p.key))
    \o (IF schema.hasPatternProperties
        THEN MapSeq(schema.patternProperties,
                    LAMBDA p : Task("patternProperty", p.node, "", p.key, p.key))
        ELSE <<>>)
    \o (IF opts.unreachableDefinitions
        THEN MapSeq(schema.definitions,
                    LAMBDA p : Task("definition", p.node, "", p.key, p.key))
        ELSE <<>>)
    \o (IF schema.additionalProperties = "schema"
        THEN <<Task("additionalProperties", schema.additionalPropertiesNode, "",
                    INDEX_KEY_NAME, INDEX_KEY_NAME)>>
        ELSE <<>>)

\* the parse calls of one branch of parseNonLiteral, in evaluation order
TasksOf(heap, schema, kind, opts) ==
    CASE kind = "ALL_OF" -> ChildTasks("param", schema.allOf)
      [] kind = "ALL_OF_EXTENDS" ->
            LET extendsIndex == extendsIndexOf(heap, schema)
            IN ParamTasks(heap[schema.allOf[extendsIndex]], opts)
               \o ChildTasks("allOfSuper",
                             [j \in 1..(Len(schema.allOf) - 1) |->
                                 schema.allOf[IF j < extendsIndex THEN j ELSE j + 1]])
      [] kind = "ANY_OF" -> ChildTasks("param", schema.anyOf)
      [] kind = "ONE_OF" -> ChildTasks("param", schema.oneOf)
      [] kind = "NAMED_ENUM" ->
            [n \in 1..Len(schema.enum) |->
                Task("enumValue", 0, schema.enum[n], schema.tsEnumNames[n], "")]
      [] kind = "UNNAMED_ENUM" ->
            MapSeq(schema.enum, LAMBDA v : Task("enumValue", 0, v, "", ""))
      [] kind = "ENUM_REF" -> <<Task("enumRef", schema.tsEnumRef, "", "", "")>>
      [] kind = "TUPLE" ->
            ChildTasks("item", schema.items)
            \o (IF schema.additionalItems = "schema"
                THEN <<Task("additionalItems", schema.additionalItemsNode, "", "", "")>>
                ELSE <<>>)
      [] kind = "ARRAY" -> ChildTasks("item", schema.items)
      [] kind = "UNION" ->
            MapSeq(schema.type, LAMBDA t : Task("unionMember", 0, t, "", ""))
      [] kind = "INTERFACE" ->
            ParamTasks(schema, opts)
            \o (IF schema.hasExtends THEN ChildTasks("superType", schema.extends)
                ELSE <<>>)
      [] kind = "INTERFACE_MAPPED" ->
            ParamTasks(schema, opts)
            \o (IF schema.hasExtends THEN <<Task("forbidExtends", 0, "", "", "")>>
                ELSE <<Task("propertyNames", schema.propertyNames, "", "", "")>>)
      [] OTHER -> <<>>

-----------------------------------------------------------------------------
(* Building the AST of one branch from the ASTs its parse calls returned.  *)
(* A result is [role, key, ast].                                           *)

ResultsOfRole(results, role) == FilterSeq(results, LAMBDA r : r.role = role)

AstsOfRole(results, role) == MapSeq(ResultsOfRole(results, role), LAMBDA r : r.ast)

\* never the single-pattern exception
singlePatternPropertyNever(schema) == FALSE

\* the single-pattern exception whatever additionalProperties is
singlePatternPropertyAlone(schema) ==
    /\ schema.hasPatternProperties
    /\ Len(schema.patternProperties) = 1

\* parseSchema: !schema.additionalProperties &&
\* Object.keys(schema.patternProperties).length === 1
singlePatternProperty(schema) ==
    /\ schema.hasPatternProperties
    /\ schema.additionalProperties \in {"absent", "false"}
    /\ Len(schema.patternProperties) = 1

\* additionalProperties adds no param at all
AdditionalPropertiesParamsNone(schema, results, opts) == <<>>

\* parseSchema, switch (schema.additionalProperties): what is appended
AdditionalPropertiesParams(schema, results, opts) ==
    CASE schema.additionalProperties = "true" ->
               IF singlePatternProperty(schema) THEN <<>>
               ELSE <<Param(AnyAdditionalProperties(opts), INDEX_KEY_NAME,
                            TRUE, FALSE, FALSE)>>
      [] schema.additionalProperties = "schema" ->
               <<Param(AstsOfRole(results, "additionalProperties")[1],
                       INDEX_KEY_NAME, TRUE, FALSE, FALSE)>>
      [] OTHER -> <<>>

\* parseSchema: the param list of an interface
parseSchema(schema, results, opts) ==
    LET single == singlePatternProperty(schema)
        required(key) == Includes(schema.required, key)
        properties ==
            MapSeq(ResultsOfRole(results, "property"),
                   LAMBDA r : Param(r.ast, r.key, required(r.key), FALSE, FALSE))
        patterns ==
            MapSeq(ResultsOfRole(results, "patternProperty"),
                   LAMBDA r : Param(r.ast,
                                    IF single THEN INDEX_KEY_NAME ELSE r.key,
                                    single \/ required(r.key),
                                    ~single, FALSE))
        definitions ==
            MapSeq(ResultsOfRole(results, "definition"),
                   LAMBDA r : Param(r.ast, r.key, required(r.key), FALSE, TRUE))
        params == properties \o patterns \o definitions
    IN params \o AdditionalPropertiesParams(schema, results, opts)

\* a tuple as long as minItems asks for, whatever maxItems is
TupleLengthOfMin(minItems, maxItems) == Max(minItems, 0)

\* Array(Math.max(maxItems, minItems) || 0): Math.max of an absent minItems is NaN
TupleLength(minItems, maxItems) ==
    IF minItems = -1 THEN 0 ELSE Max(Max(maxItems, minItems), 0)

\* a spread whatever maxItems is
UntypedSpreadAlways(maxItems, params) == params

\* spreadParam: maxItems >= 0 ? undefined : params
UntypedSpread(maxItems, params) == IF maxItems >= 0 THEN 0 ELSE params

\* case UNTYPED_ARRAY
UntypedArrayAST(schema, keyName, name, opts) ==
    LET minItems == schema.minItems
        maxItems == schema.maxItems
        params == AnySentinel(opts)
    IN IF minItems > 0 \/ maxItems >= 0
       THEN [BaseAST(schema, keyName, name, "TUPLE") EXCEPT
                !.maxItems = schema.maxItems,
                !.minItems = minItems,
                !.params = [i \in 1..TupleLength(minItems, maxItems) |-> params],
                !.spreadParam = UntypedSpread(maxItems, params)]
       ELSE [BaseAST(schema, keyName, name, "ARRAY") EXCEPT !.params = <<params>>]

\* a tuple that never gets a spread
TypedSpreadNone(schema, results, opts) == 0

\* case TYPED_ARRAY, items a list: the spread comes from additionalItems alone
TypedSpread(schema, results, opts) ==
    CASE schema.additionalItems = "true" -> AnySentinel(opts)
      [] schema.additionalItems = "schema" -> AstsOfRole(results, "additionalItems")[1]
      [] OTHER -> 0

\* the translations of the listed items, last item first
TupleParamsReversed(schema, results) ==
    [i \in 1..Len(AstsOfRole(results, "item")) |->
        AstsOfRole(results, "item")[Len(AstsOfRole(results, "item")) + 1 - i]]

\* schema.items.map(_ => parse(_, ...))
TupleParams(schema, results) == AstsOfRole(results, "item")

TypedTupleAST(schema, keyName, name, results, opts) ==
    [BaseAST(schema, keyName, name, "TUPLE") EXCEPT
        !.maxItems = schema.maxItems,
        !.minItems = schema.minItems,
        !.params = TupleParams(schema, results),
        !.spreadParam = TypedSpread(schema, results, opts)]

\* newInterface: ast: {type: 'ANY'} of the default catch-all param
DefaultAdditionalPropAST(opts) == [EmptyAST EXCEPT !.type = "ANY"]

\* the sequence as it is, nothing taken out
WithoutIndexKept(seq, idx) == seq

\* params.splice(additionalPropIndex, 1): the sequence without its idx-th element
WithoutIndex(seq, idx) ==
    [j \in 1..(Len(seq) - (IF idx > 0 THEN 1 ELSE 0)) |->
        seq[IF idx = 0 \/ j < idx THEN j ELSE j + 1]]

\* the catch-all param rewritten as the mapped key, [K in T] or [K in Exclude<T, ...>]
MappedKeyParam(additionalProp, params, keyTypeName) ==
    [additionalProp EXCEPT
        !.keyName = IF Len(params) = 0 THEN "[K in T]" ELSE "[K in Exclude<T, K>]",
        !.mappedOf = keyTypeName,
        !.mappedExclude = MapSeq(params, LAMBDA q : q.keyName)]

\* the mapped type alone, or its intersection with the explicitly listed params
MappedResult(heap, schema, keyName, name, params, mappedType) ==
    IF Len(params) = 0
    THEN [heap |-> heap,
          ast |-> [mappedType EXCEPT !.keyName = keyName, !.standaloneName = name,
                                     !.comment = DescriptionComment(schema)]]
    ELSE [heap |-> heap \o <<mappedType,
                             [EmptyAST EXCEPT !.iparams = params, !.type = "INTERFACE"]>>,
          ast |-> [BaseAST(schema, keyName, name, "INTERSECTION") EXCEPT
                      !.params = <<Len(heap) + 1, Len(heap) + 2>>]]

\* newInterface, the propertyNames branch, once the catch-all param is known
MappedInterfaceOf(heap, schema, keyName, name, params, additionalProp, paramsKeyType) ==
    MappedResult(heap, schema, keyName, name, params,
                 [EmptyAST EXCEPT
                     !.paramsKeyType = paramsKeyType,
                     !.iparams = <<MappedKeyParam(additionalProp, params,
                                                  heap[paramsKeyType].standaloneName)>>,
                     !.type = "INTERFACE"])

\* the catch-all param is the one parseSchema made, or a new one of type ANY
MappedInterfaceAt(heap, schema, keyName, name, params0, idx, paramsKeyType, opts) ==
    IF idx > 0
    THEN MappedInterfaceOf(heap, schema, keyName, name, WithoutIndex(params0, idx),
                           params0[idx], paramsKeyType)
    ELSE MappedInterfaceOf(Append(heap, DefaultAdditionalPropAST(opts)), schema, keyName,
                           name, params0,
                           Param(Len(heap) + 1, INDEX_KEY_NAME, FALSE, FALSE, FALSE),
                           paramsKeyType)

MappedInterfaceFrom(heap, schema, keyName, name, params0, paramsKeyType, opts) ==
    MappedInterfaceAt(heap, schema, keyName, name, params0,
                      SelectIdx(params0, LAMBDA q : q.keyName = INDEX_KEY_NAME),
                      paramsKeyType, opts)

\* newInterface, the propertyNames branch; heap grows by the objects it creates
MappedInterface(heap, schema, keyName, name, results, opts) ==
    MappedInterfaceFrom(heap, schema, keyName, name, parseSchema(schema, results, opts),
                        AstsOfRole(results, "propertyNames")[1], opts)

EnumParamsUnnamed(results) ==
    MapSeq(results, LAMBDA r : Param(r.ast, "", FALSE, FALSE, FALSE))

\* case NAMED_ENUM, params: {ast: parse(value), keyName: schema.tsEnumNames[n]}
EnumParams(results) ==
    MapSeq(results, LAMBDA r : Param(r.ast, r.key, FALSE, FALSE, FALSE))

\* the first member of the referenced enum, whatever its literal is
EnumParamFirst(heap, enumAst, value) == 1

\* the member of the referenced enum whose literal is value (0: none)
EnumParamIndex(heap, enumAst, value) ==
    SelectIdx(heap[enumAst].iparams,
              LAMBDA q : heap[q.ast].type = "LITERAL" /\ heap[q.ast].lit = value)

\* case UNNAMED_ENUM with tsEnumRef: one TYPE_REFERENCE object per enum value
EnumRefUnion(heap, schema, keyName, name, results) ==
    LET enumAst == AstsOfRole(results, "enumRef")[1]
        refs == MapSeq(schema.enum,
                       LAMBDA v : [EmptyAST EXCEPT !.type = "TYPE_REFERENCE",
                                                   !.params = <<enumAst>>,
                                                   !.refParam = EnumParamIndex(heap, enumAst, v)])
    IN [heap |-> heap \o refs,
        ast |-> [BaseAST(schema, keyName, name, "UNION") EXCEPT
                    !.params = [i \in 1..Len(refs) |-> Len(heap) + i]]]

\* the object a branch of parseNonLiteral returns
BuildAST(heap, sheap, f, name, opts) ==
    LET schema == sheap[f.schema]
        kind == f.kind
        keyName == f.keyName
        same(ast) == [heap |-> heap, ast |-> ast]
    IN CASE kind = "ALL_OF" ->
               same([BaseAST(schema, keyName, name, "INTERSECTION") EXCEPT
                        !.params = AstsOfRole(f.results, "param")])
         [] kind = "ALL_OF_EXTENDS" ->
               same([BaseAST(schema, keyName, name, "INTERFACE") EXCEPT
                        !.iparams = parseSchema(sheap[schema.allOf[extendsIndexOf(sheap, schema)]],
                                                f.results, opts),
                        !.superTypes = AstsOfRole(f.results, "allOfSuper")])
         [] kind = "ANY" ->
               same([BaseAST(schema, keyName, name, heap[AnySentinel(opts)].type)
                        EXCEPT !.keyName = keyName])
         [] kind \in {"ANY_OF", "ONE_OF"} ->
               same([BaseAST(schema, keyName, name, "UNION") EXCEPT
                        !.params = AstsOfRole(f.results, "param")])
         [] kind = "CUSTOM_TYPE" ->
               same([BaseAST(schema, keyName, name, "CUSTOM_TYPE") EXCEPT
                        !.custom = schema.tsType])
         [] kind = "NAMED_ENUM" ->
               same([BaseAST(schema, keyName, name, "ENUM") EXCEPT
                        !.iparams = EnumParams(f.results)])
         [] kind = "UNNAMED_ENUM" ->
               same([BaseAST(schema, keyName, name, "UNION") EXCEPT
                        !.params = AstsOfRole(f.results, "enumValue")])
         [] kind = "ENUM_REF" -> EnumRefUnion(heap, schema, keyName, name, f.results)
         [] kind = "TUPLE" -> same(TypedTupleAST(schema, keyName, name, f.results, opts))
         [] kind = "ARRAY" ->
               same([BaseAST(schema, keyName, name, "ARRAY") EXCEPT
                        !.params = AstsOfRole(f.results, "item")])
         [] kind = "UNION" ->
               same([BaseAST(schema, keyName, name, "UNION") EXCEPT
                        !.params = AstsOfRole(f.results, "unionMember")])
         [] kind = "UNTYPED_ARRAY" -> same(UntypedArrayAST(schema, keyName, name, opts))
         [] kind = "INTERFACE" ->
               same([BaseAST(schema, keyName, name, "INTERFACE") EXCEPT
                        !.iparams = parseSchema(schema, f.results, opts),
                        !.superTypes = AstsOfRole(f.results, "superType")])
         [] kind = "INTERFACE_MAPPED" ->
               MappedInterface(heap, schema, keyName, name, f.results, opts)
         [] OTHER -> same(BaseAST(schema, keyName, name, kind))

\* ensureNamedInterface: whether it returns the AST (it throws otherwise)
ensureNamedInterface(heap, a) ==
    /\ hasStandaloneName(heap[a])
    /\ \/ heap[a].type = "INTERFACE"
       \/ /\ heap[a].type = "INTERSECTION"
          /\ \A i \in 1..Len(heap[a].params) : heap[heap[a].params[i]].type = "INTERFACE"

\* an intersection schema that takes nothing over from the schema
WrapperSchemaBare(schema) == [EmptySchema EXCEPT !.hasAllOf = TRUE, !.allOf = <<>>]

\* parse, several tags: the schema object handed to the ALL_OF translation
WrapperSchema(schema) ==
    [EmptySchema EXCEPT !.hasAllOf = TRUE, !.allOf = <<>>,
                        !.description = schema.description,
                        !.id = schema.id, !.title = schema.title]

\* utils.maybeStripNameHints: a copy without description, id and title
maybeStripNameHints(schema) ==
    [schema EXCEPT !.description = "", !.id = "", !.title = ""]

\* a clone that keeps description, id and title
UnionMemberSchemaNamed(schema, type) ==
    [schema EXCEPT !.hasType = TRUE, !.typeIsList = FALSE, !.type = <<type>>]

\* case UNION: {...omit(schema, 'description', 'id', 'title'), type}
UnionMemberSchema(schema, type) ==
    [schema EXCEPT !.description = "", !.id = "", !.title = "",
                   !.hasType = TRUE, !.typeIsList = FALSE, !.type = <<type>>]

-----------------------------------------------------------------------------
(* The machine *)

Top == stack[Len(stack)]

Pop == SubSeq(stack, 1, Len(stack) - 1)

ReplaceTop(f) == [stack EXCEPT ![Len(stack)] = f]

Lookup(s, type) == {e \in processed : e.schema = s /\ e.type = type}

Running == status = "running" /\ stack # <<>>

\* the child whose parse call is next, or has just returned
Current == Head(Top.todo)

Deliver(f, a) ==
    [f EXCEPT !.todo = Tail(@),
              !.results = Append(@, [role |-> Current.role, key |-> Current.key, ast |-> a])]

\* parse, lines 630-632: a primitive value becomes a LITERAL
ParseLiteralStep ==
    /\ Running /\ ret = 0
    /\ Top.op = "parse" /\ Top.schema = 0
    /\ asts' = Append(asts, parseLiteral(Top.lit, Top.keyName))
    /\ ret' = Len(asts) + 1
    /\ stack' = Pop
    /\ UNCHANGED <<schemas, nInput, options, processed, usedNames, status, result, parseLog>>

\* parse, lines 634-639: one tag
ParseSingle ==
    /\ Running /\ ret = 0
    /\ Top.op = "parse" /\ Top.schema # 0
    /\ LET types == typesOfSchema(schemas[Top.schema])
       IN /\ Len(types) = 1
          /\ stack' = ReplaceTop([Top EXCEPT !.op = "pawc", !.type = types[1],
                                             !.logAs = Top.schema])
    /\ UNCHANGED <<schemas, nInput, options, asts, processed, usedNames, ret, status,
                   result, parseLog>>

\* parse, lines 641-655: several tags, the intersection is translated first
ParseMultiBegin ==
    /\ Running /\ ret = 0
    /\ Top.op = "parse" /\ Top.schema # 0
    /\ Len(stack) < MaxDepth
    /\ LET types == typesOfSchema(schemas[Top.schema])
       IN /\ Len(types) > 1
          /\ schemas' = Append(schemas, WrapperSchema(schemas[Top.schema]))
          /\ stack' = Append(ReplaceTop([Top EXCEPT !.op = "multi", !.types = types]),
                             [EmptyFrame EXCEPT !.op = "pawc", !.schema = Len(schemas) + 1,
                                                !.type = "ALL_OF", !.keyName = Top.keyName])
    /\ UNCHANGED <<nInput, options, asts, processed, usedNames, ret, status, result, parseLog>>

\* parse, lines 657-661: the next tag, on a stripped copy of the schema
ParseMultiMember ==
    /\ Running /\ ret # 0
    /\ Top.op = "multi"
    /\ Len(stack) < MaxDepth
    /\ LET f == IF Top.ast = 0 THEN [Top EXCEPT !.ast = ret]
                ELSE [Top EXCEPT !.results = Append(@, ret)]
           i == Len(f.results) + 1
       IN /\ i <= Len(f.types)
          /\ schemas' = Append(schemas, maybeStripNameHints(schemas[Top.schema]))
          /\ stack' = Append(ReplaceTop(f),
                             [EmptyFrame EXCEPT !.op = "pawc", !.schema = Len(schemas) + 1,
                                                !.type = f.types[i], !.keyName = Top.keyName])
    /\ ret' = 0
    /\ UNCHANGED <<nInput, options, asts, processed, usedNames, status, result, parseLog>>

\* parse, lines 657-664: ast.params = the translations, one per tag
ParseMultiEnd ==
    /\ Running /\ ret # 0
    /\ Top.op = "multi" /\ Top.ast # 0
    /\ Len(Top.results) + 1 = Len(Top.types)
    /\ asts' = [asts EXCEPT ![Top.ast].params = Append(Top.results, ret)]
    /\ ret' = Top.ast
    /\ parseLog' = parseLog \cup {[schema |-> Top.schema, ast |-> Top.ast, multi |-> TRUE]}
    /\ stack' = Pop
    /\ UNCHANGED <<schemas, nInput, options, processed, usedNames, status, result>>

\* parseAsTypeWithCache, lines 675-684: seen before
CacheHit ==
    /\ Running /\ ret = 0
    /\ Top.op = "pawc"
    /\ \E e \in Lookup(Top.schema, Top.type) :
          /\ ret' = e.ast
          /\ parseLog' = IF Top.logAs = 0 THEN parseLog
                         ELSE parseLog \cup {[schema |-> Top.logAs, ast |-> e.ast,
                                              multi |-> FALSE]}
    /\ stack' = Pop
    /\ UNCHANGED <<schemas, nInput, options, asts, processed, usedNames, status, result>>

\* parseAsTypeWithCache, lines 686-690: the empty AST goes into the cache
CacheMiss ==
    /\ Running /\ ret = 0
    /\ Top.op = "pawc"
    /\ Lookup(Top.schema, Top.type) = {}
    /\ asts' = Append(asts, EmptyAST)
    /\ processed' = processed \cup
                      {[schema |-> Top.schema, type |-> Top.type, ast |-> Len(asts) + 1]}
    /\ stack' = ReplaceTop([Top EXCEPT !.op = "enter", !.ast = Len(asts) + 1])
    /\ UNCHANGED <<schemas, nInput, options, usedNames, ret, status, result, parseLog>>

\* parseNonLiteral, lines 713-716: the branch is chosen; all branches but the
\* tsEnumRef one ask for the standalone name before they parse a child
ParseNonLiteral ==
    /\ Running /\ ret = 0
    /\ Top.op = "enter" /\ Top.type # "REFERENCE"
    /\ LET schema == schemas[Top.schema]
           kind == KindOf(schemas, schema, Top.type)
           named == IF kind = "ENUM_REF" THEN [name |-> NoName, used |-> usedNames]
                    ELSE standaloneName(schema,
                                        NameFallback(schemas, Top.schema, Top.type, kind,
                                                     Top.keyName),
                                        usedNames)
       IN /\ usedNames' = named.used
          /\ stack' = ReplaceTop([Top EXCEPT !.op = "body", !.kind = kind,
                                             !.name = named.name,
                                             !.todo = TasksOf(schemas, schema, kind, options)])
    /\ UNCHANGED <<schemas, nInput, options, asts, processed, ret, status, result, parseLog>>

\* a REFERENCE that is translated like the cases without children
ReferencePasses ==
    /\ Running /\ ret = 0
    /\ Top.op = "enter" /\ Top.type = "REFERENCE"
    /\ stack' = ReplaceTop([Top EXCEPT !.op = "body", !.kind = "REFERENCE"])
    /\ UNCHANGED <<schemas, nInput, options, asts, processed, usedNames, ret, status,
                   result, parseLog>>

\* case REFERENCE: throw
ThrowReference ==
    /\ Running /\ ret = 0
    /\ Top.op = "enter" /\ Top.type = "REFERENCE"
    /\ status' = "error"
    /\ UNCHANGED <<schemas, nInput, options, asts, processed, usedNames, stack, ret,
                   result, parseLog>>

\* a branch calls parse for its next child
CallChild ==
    /\ Running /\ ret = 0
    /\ Top.op = "body" /\ Top.todo # <<>>
    /\ Current.role \notin {"unionMember", "forbidExtends"}
    /\ Len(stack) < MaxDepth
    /\ stack' = Append(stack, ParseCall(Current.node, Current.lit, Current.keyName))
    /\ UNCHANGED <<schemas, nInput, options, asts, processed, usedNames, ret, status,
                   result, parseLog>>

\* case UNION, lines 879-882: parse of a fresh clone with a single type
CallUnionMember ==
    /\ Running /\ ret = 0
    /\ Top.op = "body" /\ Top.todo # <<>>
    /\ Current.role = "unionMember"
    /\ Len(stack) < MaxDepth
    /\ schemas' = Append(schemas, UnionMemberSchema(schemas[Top.schema], Current.lit))
    /\ stack' = Append(stack, ParseCall(Len(schemas) + 1, "", ""))
    /\ UNCHANGED <<nInput, options, asts, processed, usedNames, ret, status, result, parseLog>>

\* newInterface, lines 982-985: extends together with propertyNames
ThrowSupertypeForbidden ==
    /\ Running /\ ret = 0
    /\ Top.op = "body" /\ Top.todo # <<>>
    /\ Current.role = "forbidExtends"
    /\ status' = "error"
    /\ UNCHANGED <<schemas, nInput, options, asts, processed, usedNames, stack, ret,
                   result, parseLog>>

\* the parse call of a child returned; its AST is kept as it is
ReturnChild ==
    /\ Running /\ ret # 0
    /\ Top.op = "body"
    /\ Current.role \in {"param", "property", "additionalProperties", "superType", "item",
                         "additionalItems", "enumValue", "unionMember"}
    /\ stack' = ReplaceTop(Deliver(Top, ret))
    /\ ret' = 0
    /\ UNCHANGED <<schemas, nInput, options, asts, processed, usedNames, status, result,
                   parseLog>>

\* parseSchema, lines 1105-1108 and 1123-1126: the origin note is added to the
\* comment of the AST parse returned
ReturnCommented ==
    /\ Running /\ ret # 0
    /\ Top.op = "body"
    /\ Current.role \in {"patternProperty", "definition"}
    /\ asts' = [asts EXCEPT ![ret] = AddComment(@, Current.role, Top.name, Current.key)]
    /\ stack' = ReplaceTop(Deliver(Top, ret))
    /\ ret' = 0
    /\ UNCHANGED <<schemas, nInput, options, processed, usedNames, status, result, parseLog>>

\* newInterface, lines 986-993: the propertyNames type has a standalone name
ReturnPropertyNames ==
    /\ Running /\ ret # 0
    /\ Top.op = "body"
    /\ Current.role = "propertyNames"
    /\ hasStandaloneName(asts[ret])
    /\ asts' = [asts EXCEPT ![ret] = AddComment(@, "propertyNames", Top.name, "")]
    /\ stack' = ReplaceTop(Deliver(Top, ret))
    /\ ret' = 0
    /\ UNCHANGED <<schemas, nInput, options, processed, usedNames, status, result, parseLog>>

\* newInterface, lines 991-993: it has none
ThrowPropertyNames ==
    /\ Running /\ ret # 0
    /\ Top.op = "body"
    /\ Current.role = "propertyNames"
    /\ ~hasStandaloneName(asts[ret])
    /\ asts' = [asts EXCEPT ![ret] = AddComment(@, "propertyNames", Top.name, "")]
    /\ status' = "error"
    /\ UNCHANGED <<schemas, nInput, options, processed, usedNames, stack, ret, result,
                   parseLog>>

\* case ALL_OF with tsExtendAllOf, lines 727-731: ensureNamedInterface returns
ReturnSuperType ==
    /\ Running /\ ret # 0
    /\ Top.op = "body"
    /\ Current.role = "allOfSuper"
    /\ ensureNamedInterface(asts, ret)
    /\ stack' = ReplaceTop(Deliver(Top, ret))
    /\ ret' = 0
    /\ UNCHANGED <<schemas, nInput, options, asts, processed, usedNames, status, result,
                   parseLog>>

\* ensureNamedInterface throws
ThrowSuperType ==
    /\ Running /\ ret # 0
    /\ Top.op = "body"
    /\ Current.role = "allOfSuper"
    /\ ~ensureNamedInterface(asts, ret)
    /\ status' = "error"
    /\ UNCHANGED <<schemas, nInput, options, asts, processed, usedNames, stack, ret,
                   result, parseLog>>

\* whether the tsEnumRef branch gets past its two throws
EnumRefResolves(heap, schema, enumAst) ==
    /\ heap[enumAst].type = "ENUM"
    /\ \A i \in 1..Len(schema.enum) : EnumParamIndex(heap, enumAst, schema.enum[i]) > 0

\* case UNNAMED_ENUM with tsEnumRef, lines 887-900
ReturnEnumRef ==
    /\ Running /\ ret # 0
    /\ Top.op = "body"
    /\ Current.role = "enumRef"
    /\ EnumRefResolves(asts, schemas[Top.schema], ret)
    /\ stack' = ReplaceTop(Deliver(Top, ret))
    /\ ret' = 0
    /\ UNCHANGED <<schemas, nInput, options, asts, processed, usedNames, status, result,
                   parseLog>>

ThrowEnumRef ==
    /\ Running /\ ret # 0
    /\ Top.op = "body"
    /\ Current.role = "enumRef"
    /\ ~EnumRefResolves(asts, schemas[Top.schema], ret)
    /\ status' = "error"
    /\ UNCHANGED <<schemas, nInput, options, asts, processed, usedNames, stack, ret,
                   result, parseLog>>

\* the branch returns, but its object is not copied into the AST in the cache
FinishBodyUnfilled ==
    /\ Running /\ ret = 0
    /\ Top.op = "body" /\ Top.todo = <<>>
    /\ ret' = Top.ast
    /\ parseLog' = IF Top.logAs = 0 THEN parseLog
                   ELSE parseLog \cup {[schema |-> Top.logAs, ast |-> Top.ast,
                                        multi |-> FALSE]}
    /\ stack' = Pop
    /\ UNCHANGED <<schemas, nInput, options, asts, processed, usedNames, status, result>>

\* the branch returns its object and parseAsTypeWithCache, line 694, copies
\* it into the AST that is in the cache
FinishBody ==
    /\ Running /\ ret = 0
    /\ Top.op = "body" /\ Top.todo = <<>>
    /\ LET named == IF Top.kind = "ENUM_REF"
                    THEN standaloneName(schemas[Top.schema],
                                        keyNameFromDefinitionOf(schemas, Top.schema),
                                        usedNames)
                    ELSE [name |-> Top.name, used |-> usedNames]
           built == BuildAST(asts, schemas, Top, named.name, options)
       IN /\ usedNames' = named.used
          /\ asts' = [built.heap EXCEPT ![Top.ast] = built.ast]
    /\ ret' = Top.ast
    /\ parseLog' = IF Top.logAs = 0 THEN parseLog
                   ELSE parseLog \cup {[schema |-> Top.logAs, ast |-> Top.ast,
                                        multi |-> FALSE]}
    /\ stack' = Pop
    /\ UNCHANGED <<schemas, nInput, options, processed, status, result>>

\* the call on the root returned
Done ==
    /\ status = "running" /\ stack = <<>> /\ ret # 0
    /\ status' = "done"
    /\ result' = ret
    /\ UNCHANGED <<schemas, nInput, options, asts, processed, usedNames, stack, ret, parseLog>>

\* one more call does not fit on the stack
StackOverflow ==
    /\ Running
    /\ Len(stack) >= MaxDepth
    /\ \/ (ret = 0 /\ Top.op = "parse" /\ Top.schema # 0
           /\ Len(typesOfSchema(schemas[Top.schema])) > 1)
       \/ (ret # 0 /\ Top.op = "multi"
           /\ Len(Top.results) + (IF Top.ast = 0 THEN 0 ELSE 1) < Len(Top.types))
       \/ (ret = 0 /\ Top.op = "body" /\ Top.todo # <<>>
           /\ Current.role # "forbidExtends")
    /\ status' = "overflow"
    /\ UNCHANGED <<schemas, nInput, options, asts, processed, usedNames, stack, ret,
                   result, parseLog>>

Next ==
    \/ ParseLiteralStep \/ ParseSingle \/ ParseMultiBegin \/ ParseMultiMember
    \/ ParseMultiEnd \/ CacheHit \/ CacheMiss \/ ParseNonLiteral \/ ThrowReference
    \/ CallChild \/ CallUnionMember \/ ThrowSupertypeForbidden \/ ReturnChild
    \/ ReturnCommented \/ ReturnPropertyNames \/ ThrowPropertyNames \/ ReturnSuperType
    \/ ThrowSuperType \/ ReturnEnumRef \/ ThrowEnumRef \/ FinishBody \/ Done
    \/ StackOverflow

-----------------------------------------------------------------------------
(* Inputs: linked schema graphs as the dereferencer and the normaliser     *)
(* hand them to parse.  Node 1 is the root.                                *)

Prop(key, node) == [key |-> key, node |-> node]

\* the nodes at most k references away from the root
Within(g, k) ==
    LET R[j \in 0..k] ==
            IF j = 0 THEN {1}
            ELSE R[j - 1] \cup UNION {ChildrenOf(g[m]) : m \in R[j - 1]}
    IN R[k]

\* the Parent links: each node below the root points to the first node, one
\* step nearer the root, that refers to it
Link(g) ==
    LET parentOf(n) ==
            IF n = 1 \/ n \notin Within(g, Len(g)) THEN 0
            ELSE LET ks == {k \in 1..Len(g) : n \in Within(g, k)}
                     d == CHOOSE k \in ks : \A k2 \in ks : k <= k2
                     up == {m \in Within(g, d - 1) : n \in ChildrenOf(g[m])}
                 IN CHOOSE m \in up : \A m2 \in up : m <= m2
    IN [n \in 1..Len(g) |-> [g[n] EXCEPT !.parent = parentOf(n)]]

Named(s, title) ==
    [s EXCEPT !.title = title, !.description = IF title = "" THEN "" ELSE "doc"]

Str == [EmptySchema EXCEPT !.hasType = TRUE, !.type = <<"string">>]

AnySchema == EmptySchema

Enum(values) == [EmptySchema EXCEPT !.hasEnum = TRUE, !.enum = values]

NamedEnum(values, names) ==
    [EmptySchema EXCEPT !.hasEnum = TRUE, !.enum = values,
                        !.hasEnumNames = TRUE, !.tsEnumNames = names]

Typed(s, t) == [s EXCEPT !.hasType = TRUE, !.typeIsList = FALSE, !.type = <<t>>]

TypeList(s, ts) == [s EXCEPT !.hasType = TRUE, !.typeIsList = TRUE, !.type = ts]

\* an object schema as the normaliser leaves it
Obj(props) ==
    [EmptySchema EXCEPT !.hasType = TRUE, !.type = <<"object">>,
                        !.hasProperties = TRUE, !.properties = props,
                        !.additionalProperties = "false",
                        !.hasRequired = TRUE, !.required = <<>>]

WithProps(s, props) == [s EXCEPT !.hasProperties = TRUE, !.properties = props]

AnyOf(nodes) == [EmptySchema EXCEPT !.hasAnyOf = TRUE, !.anyOf = nodes]

AllOf(nodes) == [EmptySchema EXCEPT !.hasAllOf = TRUE, !.allOf = nodes]

Input(graph, unknownAny, unreachableDefinitions) ==
    \E g \in {graph} :
        /\ schemas = Link(g)
        /\ options = [unknownAny |-> unknownAny,
                      unreachableDefinitions |-> unreachableDefinitions]

\* shapes of a node that may be shared or lie on a cycle; c is its child
ElementShape(k, t, c) ==
    CASE k = 1 -> Named(Str, t)
      [] k = 2 -> Named(NamedEnum(<<"a", "b">>, <<"A", "B">>), t)
      [] k = 3 -> Named(Typed(Enum(<<"a">>), "string"), t)
      [] k = 4 -> Named(Typed(NamedEnum(<<"a">>, <<"A">>), "string"), t)
      [] k = 5 -> Named(Obj(<<Prop("child", c)>>), t)
      [] k = 6 -> Named(WithProps(Enum(<<"a">>), <<Prop("child", c)>>), t)
      [] k = 7 -> Named(TypeList(EmptySchema, <<"string", "null">>), t)
      [] k = 8 -> Named(TypeList(Obj(<<Prop("child", c)>>), <<"object", "null">>), t)
      [] k = 9 -> Named(AnyOf(<<3>>), t)
      [] OTHER -> Named(AnySchema, t)

\* a root that refers to node 2 and to node x, by key or by position
SharingRoot(k, x) ==
    CASE k = 1 -> Named(Obj(<<Prop("a", 2), Prop("b", x)>>), "a")
      [] k = 2 -> AnyOf(<<2, x>>)
      [] OTHER -> [Obj(<<Prop("a", 2)>>) EXCEPT
                      !.hasDefinitions = TRUE,
                      !.definitions = <<Prop("k", 2), Prop("b", x)>>]

\* a node reached twice, or node 2 on a cycle through the root or itself
InitSharing ==
    \E rk \in 1..3, x \in {2, 3}, k \in 1..10, t \in {"", "A"}, c \in {1, 2},
       t3 \in {"", "A", "A1"} :
        Input(<<SharingRoot(rk, x), ElementShape(k, t, c), Named(Str, t3)>>, FALSE, FALSE)

\* the "Normalize schema.items" rule, as its fixture shows it: minItems
\* defaults to 0, a single items schema with a bound becomes a list (with the
\* schema as additionalItems when there is no maximum), and a list longer
\* than maxItems is cut
NormalizeItems(s) ==
    LET hasMax == s.maxItems >= 0
        hasMin == s.minItems > 0
        n == IF hasMax THEN s.maxItems ELSE s.minItems
        listed == IF s.itemsKind = "single" /\ (hasMax \/ hasMin)
                  THEN [s EXCEPT !.itemsKind = "list",
                                 !.items = [i \in 1..n |-> s.items[1]],
                                 !.additionalItems = IF hasMax THEN @ ELSE "schema",
                                 !.additionalItemsNode = IF hasMax THEN @ ELSE s.items[1]]
                  ELSE s
    IN [listed EXCEPT
           !.minItems = Max(@, 0),
           !.items = IF listed.itemsKind = "list" /\ hasMax /\ s.maxItems < Len(@)
                     THEN SubSeq(@, 1, s.maxItems) ELSE @]

Num == [EmptySchema EXCEPT !.hasType = TRUE, !.type = <<"number">>]

\* an array schema as it is written: no items, one items schema, or a list
RawArray(k, additionalItems, minItems, maxItems) ==
    [EmptySchema EXCEPT
        !.hasType = (k = 0), !.type = IF k = 0 THEN <<"array">> ELSE <<>>,
        !.itemsKind = CASE k = 0 -> "absent" [] k = 1 -> "single" [] OTHER -> "list",
        !.items = CASE k = 0 -> <<>> [] k = 3 -> <<2, 3>> [] OTHER -> <<2>>,
        !.additionalItems = additionalItems,
        !.additionalItemsNode = IF additionalItems = "schema" THEN 3 ELSE 0,
        !.minItems = minItems, !.maxItems = maxItems]

\* an array at the root, after normalisation
InitArrays ==
    \E k \in 0..3, ai \in {"absent", "false", "true", "schema"},
       m \in -1..MaxItemsBound, M \in -1..MaxItemsBound, ua \in BOOLEAN :
        Input(<<NormalizeItems(RawArray(k, ai, m, M)), Str, Num>>, ua, FALSE)

\* an object schema with np properties, npp patternProperties, nd definitions
ObjectWith(np, npp, nd, additionalProperties) ==
    [Obj(SubSeq(<<Prop("a", 2)>>, 1, np)) EXCEPT
        !.hasPatternProperties = (npp > 0),
        !.patternProperties = SubSeq(<<Prop("^x", 2), Prop("^y", 3)>>, 1, npp),
        !.hasDefinitions = (nd > 0),
        !.definitions = SubSeq(<<Prop("k", 3)>>, 1, nd),
        !.additionalProperties = additionalProperties,
        !.additionalPropertiesNode = IF additionalProperties = "schema" THEN 3 ELSE 0]

InitInterfaces ==
    \E np \in 0..1, npp \in 0..2, nd \in 0..1,
       ap \in {"absent", "false", "true", "schema"},
       t \in {"", "A"}, ua \in BOOLEAN, ud \in BOOLEAN :
        Input(<<Named(ObjectWith(np, npp, nd, ap), t), Named(Str, "B"), Num>>, ua, ud)

\* what propertyNames can point to
KeySchema(k) ==
    CASE k = 1 -> Named(Enum(<<"a", "b">>), "K")
      [] k = 2 -> Enum(<<"a", "b">>)
      [] k = 3 -> [EmptySchema EXCEPT !.pattern = "^x"]
      [] OTHER -> Named(NamedEnum(<<"a", "b">>, <<"A", "B">>), "K")

InitPropertyNames ==
    \E np \in 0..1, npp \in 0..1, ap \in {"false", "true", "schema"}, k \in 1..4,
       ext \in BOOLEAN, t \in {"", "A"}, ua \in BOOLEAN :
        Input(<<Named([ObjectWith(np, npp, 0, ap) EXCEPT
                          !.propertyNames = 4,
                          !.hasExtends = ext,
                          !.extends = IF ext THEN <<5>> ELSE <<>>], t),
                Str, Num, KeySchema(k), Named(Obj(<<>>), "B")>>, ua, FALSE)

\* what a supertype position can hold
SuperShape(k) ==
    CASE k = 1 -> Named(Obj(<<Prop("b", 4)>>), "B")
      [] k = 2 -> Obj(<<>>)
      [] k = 3 -> Str
      [] OTHER -> Named(Str, "B")

\* a schema with a supertype: by extends, or by an allOf with a flagged member
InitSuperTypes ==
    \E k \in 1..4, t \in {"", "A"}, first \in BOOLEAN :
        \/ Input(<<Named([Obj(<<Prop("a", 4)>>) EXCEPT
                             !.hasExtends = TRUE,
                             !.extends = IF first THEN <<2>> ELSE <<2, 2>>], t),
                   SuperShape(k), Str, Str>>, FALSE, FALSE)
        \/ Input(<<Named(AllOf(IF first THEN <<3, 2>> ELSE <<2, 3>>), t),
                   SuperShape(k),
                   [Obj(<<Prop("a", 4)>>) EXCEPT !.tsExtendAllOf = TRUE], Str>>,
                 FALSE, FALSE)
        \/ \E order \in {<<2, 3, 5>>, <<5, 2, 3>>, <<3, 5, 2>>} :
              Input(<<Named(AllOf(order), t),
                      SuperShape(k),
                      [Obj(<<Prop("a", 4)>>) EXCEPT !.tsExtendAllOf = TRUE], Str,
                      Named([Obj(<<Prop("c", 4), Prop("d", 4)>>) EXCEPT
                                !.tsExtendAllOf = TRUE], "C")>>,
                    FALSE, FALSE)

\* a schema that still has its $ref, alone or next to other attributes
Unresolved(k) ==
    CASE k = 1 -> [EmptySchema EXCEPT !.ref = "#/definitions/a"]
      [] k = 2 -> [Str EXCEPT !.ref = "#/definitions/a"]
      [] OTHER -> [EmptySchema EXCEPT !.ref = "#/definitions/a", !.tsType = "Foo"]

\* an enum that refers to a named enum by tsEnumRef, and an unresolved $ref
InitReferences ==
    \/ \E values \in {<<"a">>, <<"b", "a">>, <<"a", "c">>}, t \in {"", "A"},
          target \in {Named(NamedEnum(<<"a", "b">>, <<"A", "B">>), "K"), Str,
                      Named(Typed(NamedEnum(<<"a", "b">>, <<"A", "B">>), "string"), "K")} :
           Input(<<Named([Enum(values) EXCEPT !.tsEnumRef = 2], t), target>>, FALSE, FALSE)
    \/ \E atRoot \in BOOLEAN, k \in 1..3 :
           Input(IF atRoot THEN <<Unresolved(k)>>
                 ELSE <<Obj(<<Prop("b", 3), Prop("a", 2)>>), Unresolved(k), Str>>,
                 FALSE, FALSE)

\* a named enum as the root, with and without type "string"
InitEnums ==
    \E typed \in BOOLEAN, t \in {"", "Color"} :
        LET e == NamedEnum(<<"a", "b", "c">>, <<"A", "B", "C">>)
        IN Input(<<Named(IF typed THEN Typed(e, "string") ELSE e, t)>>, FALSE, FALSE)

\* a schema whose type is a list of type names as the root
InitUnions ==
    \E ts \in {<<"string", "number">>, <<"null", "boolean", "string">>},
       t \in {"", "StrOrNum"} :
        Input(<<Named(TypeList(EmptySchema, ts), t)>>, FALSE, FALSE)

\* a schema with any combination of the attributes the classifier looks at
Tagged(custom, allOf, anyOf, enum, type) ==
    LET s1 == IF custom THEN [EmptySchema EXCEPT !.tsType = "Foo"] ELSE EmptySchema
        s2 == IF allOf THEN [s1 EXCEPT !.hasAllOf = TRUE, !.allOf = <<3>>] ELSE s1
        s3 == IF anyOf THEN [s2 EXCEPT !.hasAnyOf = TRUE, !.anyOf = <<3>>] ELSE s2
        s4 == CASE enum = 1 -> [s3 EXCEPT !.hasEnum = TRUE, !.enum = <<"a">>]
                [] enum = 2 -> [s3 EXCEPT !.hasEnum = TRUE, !.enum = <<"a">>,
                                          !.hasEnumNames = TRUE, !.tsEnumNames = <<"A">>]
                [] OTHER -> s3
    IN CASE type = "" -> s4
         [] type = "list" -> TypeList(s4, <<"string", "null">>)
         [] type = "array" -> NormalizeItems(Typed(s4, type))
         [] OTHER -> Typed(s4, type)

\* a property whose schema has some of these attributes, next to an empty schema
InitTagged ==
    \E custom \in BOOLEAN, allOf \in BOOLEAN, anyOf \in BOOLEAN, enum \in 0..2,
       type \in {"", "list", "array", "object", "string", "any"} :
        Input(<<Obj(<<Prop("a", 2), Prop("b", 3)>>),
                Tagged(custom, allOf, anyOf, enum, type), AnySchema>>, FALSE, FALSE)

\* two nodes with the same attributes at different places: node 2 under the
\* root, as a property and perhaps as a definition of the root, node 5 under
\* node 3, as a property and perhaps as a definition of node 3
InitTwins ==
    \E t \in {"", "T"}, definitionsAt \in 0..2, shape \in 1..3 :
        LET twin == CASE shape = 1 -> Named(Obj(<<Prop("x", 4)>>), t)
                      [] shape = 2 -> Named(Typed(Enum(<<"a">>), "string"), t)
                      [] OTHER -> Named(Str, t)
            root == Obj(<<Prop("a", 2), Prop("b", 3)>>)
            inner == Obj(<<Prop("y", 5)>>)
        IN Input(<<IF definitionsAt = 1
                   THEN [root EXCEPT !.hasDefinitions = TRUE,
                                     !.definitions = <<Prop("k", 2)>>]
                   ELSE root,
                   twin,
                   IF definitionsAt = 2
                   THEN [inner EXCEPT !.hasDefinitions = TRUE,
                                      !.definitions = <<Prop("k", 5)>>]
                   ELSE inner,
                   Str, twin>>, FALSE, FALSE)

\* an object schema that is reached again through patternProperties while it
\* is translated: from itself, or from the schema its own entry refers to
InitPatternCycles ==
    \E k \in 1..2, ap \in {"absent", "true"}, t \in {"", "A"}, d \in {"", "doc"} :
        Input(<<[Named(Obj(<<Prop("a", 3)>>), t) EXCEPT
                    !.description = d,
                    !.hasPatternProperties = TRUE,
                    !.patternProperties = <<Prop("^x", k)>>,
                    !.additionalProperties = ap],
                [Obj(<<>>) EXCEPT
                    !.hasPatternProperties = TRUE,
                    !.patternProperties = <<Prop("^y", 1), Prop("^z", 3)>>],
                Str>>, FALSE, FALSE)

\* a schema that is reached again, while it is translated, at a place where
\* the AST is checked: as a supertype (root 1) or as propertyNames (root 2);
\* from the other root the same graph is walked in the other order
InitCheckedCycles ==
    \E k \in 1..4 :
        Input(CASE k = 1 -> <<Named(Obj(<<Prop("c", 2)>>), "B"),
                              Named(AllOf(<<3, 1>>), "C"),
                              [Obj(<<Prop("a", 4)>>) EXCEPT !.tsExtendAllOf = TRUE], Str>>
                [] k = 2 -> <<Named(AllOf(<<3, 2>>), "C"),
                              Named(Obj(<<Prop("c", 1)>>), "B"),
                              [Obj(<<Prop("a", 4)>>) EXCEPT !.tsExtendAllOf = TRUE], Str>>
                [] k = 3 -> <<Named(AnyOf(<<2>>), "K"),
                              [Obj(<<>>) EXCEPT !.propertyNames = 1]>>
                [] OTHER -> <<[Obj(<<>>) EXCEPT !.propertyNames = 2],
                              Named(AnyOf(<<1>>), "K")>>,
              FALSE, FALSE)

\* an object schema one of whose keys is spelled like the index key: a
\* property, a patternProperties entry or a definition
InitIndexKeys ==
    \E where \in {"properties", "patternProperties", "definitions"},
       npp \in 0..2, ap \in {"absent", "false", "true", "schema"}, ud \in BOOLEAN :
        /\ where = "patternProperties" => npp > 0
        /\ Input(<<CASE where = "properties" ->
                          [ObjectWith(1, npp, 1, ap) EXCEPT
                              !.properties = <<Prop(INDEX_KEY_NAME, 2)>>]
                     [] where = "patternProperties" ->
                          [ObjectWith(1, npp, 1, ap) EXCEPT
                              !.patternProperties[1] = Prop(INDEX_KEY_NAME, 2)]
                     [] OTHER ->
                          [ObjectWith(1, npp, 1, ap) EXCEPT
                              !.definitions = <<Prop(INDEX_KEY_NAME, 3)>>],
                    Named(Str, "B"), Num>>, FALSE, ud)

Init ==
    /\ \/ InitIndexKeys \/ InitCheckedCycles \/ InitPatternCycles \/ InitTwins \/ InitSharing \/ InitArrays \/ InitInterfaces \/ InitPropertyNames
       \/ InitSuperTypes \/ InitReferences \/ InitEnums \/ InitUnions \/ InitTagged
    /\ nInput = Len(schemas)
    /\ asts = InitialASTs
    /\ processed = {}
    /\ usedNames = {}
    /\ stack = <<ParseCall(1, "", "")>>
    /\ ret = 0
    /\ status = "running"
    /\ result = 0
    /\ parseLog = {}

Spec == Init /\ [][Next]_vars

-----------------------------------------------------------------------------
(* What the properties below speak about *)

\* the ASTs an AST object refers to
ASTChildren(heap, a) ==
    {heap[a].params[i] : i \in 1..Len(heap[a].params)}
    \cup {heap[a].iparams[i].ast : i \in 1..Len(heap[a].iparams)}
    \cup {heap[a].superTypes[i] : i \in 1..Len(heap[a].superTypes)}
    \cup ({heap[a].spreadParam, heap[a].paramsKeyType} \ {0})

RECURSIVE ReachableFrom(_, _)
ReachableFrom(heap, set) ==
    LET next == set \cup UNION {ASTChildren(heap, a) : a \in set}
    IN IF next = set THEN set ELSE ReachableFrom(heap, next)

\* the output: every AST object reachable from the AST parse returned
Output == IF status = "done" THEN ReachableFrom(asts, {result}) ELSE {}

InputNodes == 1..nInput

-----------------------------------------------------------------------------
(* C1 *)

\* C1: every schema node that parse translates more than once in a run gets
\* the same AST object each time, whether it has one tag or several, and the
\* cache holds at most one AST per (schema node, tag).
C1_SameASTEachTime ==
    /\ \A e1, e2 \in parseLog : e1.schema = e2.schema => e1.ast = e2.ast
    /\ \A p1, p2 \in processed :
          (p1.schema = p2.schema /\ p1.type = p2.type) => p1.ast = p2.ast

-----------------------------------------------------------------------------
(* C2 *)

\* the interfaces translated from a node one of whose properties is the node itself
SelfReferences ==
    {e \in processed :
        /\ e.schema \in InputNodes
        /\ e.type \in {"NAMED_SCHEMA", "UNNAMED_SCHEMA"}
        /\ \E i \in 1..Len(schemas[e.schema].properties) :
              schemas[e.schema].properties[i].node = e.schema}

\* C2: parse terminates on every schema graph with a cycle, whatever the nodes
\* on the cycle look like, and the child param of a node that is its own
\* property child is the outer INTERFACE itself.
C2_CyclesTerminateAndClose ==
    /\ status # "overflow"
    /\ status = "done" =>
          \A e \in SelfReferences :
              \A i \in 1..Len(asts[e.ast].iparams) :
                  schemas[e.schema].properties[i].node = e.schema
                      => asts[e.ast].iparams[i].ast = e.ast

-----------------------------------------------------------------------------
(* C3 *)

\* C3: when a run has ended, no two distinct AST objects of the output carry
\* the same standaloneName, and every name in the output is in the used-names
\* set.
C3_NamesUnique ==
    /\ \A a, b \in Output :
          (a # b /\ hasStandaloneName(asts[a]) /\ hasStandaloneName(asts[b]))
              => asts[a].standaloneName # asts[b].standaloneName
    /\ \A a \in Output :
          hasStandaloneName(asts[a]) => asts[a].standaloneName \in usedNames

\* a finished run in which two objects of the output asked for the same name
\* and one of them got it with a counter
C3_Witness ==
    \E a, b \in Output :
        /\ a # b
        /\ hasStandaloneName(asts[a]) /\ hasStandaloneName(asts[b])
        /\ asts[a].standaloneName.base = asts[b].standaloneName.base
        /\ asts[a].standaloneName.n = 0 /\ asts[b].standaloneName.n = 1

-----------------------------------------------------------------------------
(* C4, C5 *)

\* the cache entries whose AST is a TUPLE
Tuples == {e \in processed : asts[e.ast].type = "TUPLE"}

\* C4 as stated: every TUPLE has a spreadParam if and only if its schema has no
\* maxItems, for a list of items as well as for an untyped array.
C4_SpreadIffUnbounded ==
    \A e \in Tuples :
        (asts[e.ast].spreadParam # 0) <=> (schemas[e.schema].maxItems = -1)

\* C4: the TUPLE of an untyped array has a spreadParam (the ANY or UNKNOWN
\* constant) if and only if its schema has no maxItems; the TUPLE of a list of
\* items has one if and only if additionalItems is true or a schema, whatever
\* maxItems is.
C4_SpreadRule ==
    \A e \in Tuples :
        LET spread == asts[e.ast].spreadParam
            schema == schemas[e.schema]
        IN /\ e.type = "UNTYPED_ARRAY" =>
                 /\ (spread # 0) <=> (schema.maxItems = -1)
                 /\ spread \in {0, AnySentinel(options)}
           /\ e.type = "TYPED_ARRAY" =>
                 (spread # 0) <=> (schema.additionalItems \in {"true", "schema"})

\* the TUPLE of a list of items that has a maxItems and a spreadParam, or
\* neither of them
C4_Witness ==
    \E e \in Tuples :
        /\ e.type = "TYPED_ARRAY"
        /\ \/ asts[e.ast].spreadParam # 0 /\ schemas[e.schema].maxItems >= 0
           \/ asts[e.ast].spreadParam = 0 /\ schemas[e.schema].maxItems = -1

\* C5 as stated: a TUPLE whose schema has minItems m and maxItems M has exactly
\* max(m, M) element ASTs.
C5_LengthIsMax ==
    \A e \in Tuples :
        (schemas[e.schema].minItems >= 0 /\ schemas[e.schema].maxItems >= 0) =>
            Len(asts[e.ast].params) = Max(schemas[e.schema].minItems,
                                          schemas[e.schema].maxItems)

\* C5: with minItems m and maxItems M, the TUPLE of an untyped array has
\* exactly max(m, M) element ASTs; the TUPLE of a list of items has one element
\* AST per listed item, which is at most M since normalisation cut the list.
C5_LengthRule ==
    \A e \in Tuples :
        LET schema == schemas[e.schema]
            n == Len(asts[e.ast].params)
        IN (schema.minItems >= 0 /\ schema.maxItems >= 0) =>
               /\ e.type = "UNTYPED_ARRAY" => n = Max(schema.minItems, schema.maxItems)
               /\ e.type = "TYPED_ARRAY" => n = Len(schema.items) /\ n <= schema.maxItems

\* the TUPLE of a list of items that is shorter than max(m, M)
C5_Witness ==
    \E e \in Tuples :
        /\ e.type = "TYPED_ARRAY"
        /\ schemas[e.schema].maxItems >= 0
        /\ Len(asts[e.ast].params) > 0
        /\ Len(asts[e.ast].params) < Max(schemas[e.schema].minItems,
                                         schemas[e.schema].maxItems)

-----------------------------------------------------------------------------
(* C6, C7 *)

\* C6: every ENUM AST has a standaloneName; a named enum for which no name can
\* be derived makes the run fail instead.
C6_EnumsNamed ==
    \A a \in 1..Len(asts) : asts[a].type = "ENUM" => hasStandaloneName(asts[a])

\* C7: every superTypes entry of an INTERFACE of the output has a
\* standaloneName and is an INTERFACE or an INTERSECTION of INTERFACEs; any
\* other child of extends makes the run fail instead.
C7_SuperTypesNamedInterfaces ==
    \A a \in Output :
        asts[a].type = "INTERFACE" =>
            \A i \in 1..Len(asts[a].superTypes) :
                ensureNamedInterface(asts, asts[a].superTypes[i])

-----------------------------------------------------------------------------
(* C8 *)

\* the calls of parse on a schema with several tags that have returned
MultiTagEntries == {e \in parseLog : e.multi}

\* schema.title || schema.id
NameHint(schema) == IF schema.title # "" THEN schema.title ELSE schema.id

\* C8: parse on a schema with several tags returns an INTERSECTION whose
\* comment is the schema's description and whose standaloneName is made from
\* its title or id (none without them), with one param per tag in classifier
\* order; each param was translated for its tag from a schema object that is
\* not the node, has no comment made of the description, and has no
\* standaloneName unless it is an ENUM named after its key.
C8_IntersectionHoists ==
    \A e \in MultiTagEntries :
        LET schema == schemas[e.schema]
            ast == asts[e.ast]
            types == typesOfSchema(schema)
        IN /\ ast.type = "INTERSECTION"
           /\ Len(ast.comment) >= Len(DescriptionComment(schema))
           /\ SubSeq(ast.comment, 1, Len(DescriptionComment(schema)))
                 = DescriptionComment(schema)
           /\ IF NameHint(schema) = "" THEN ~hasStandaloneName(ast)
              ELSE ast.standaloneName.base = toSafeString(NameHint(schema)).base
           /\ Len(ast.params) = Len(types)
           /\ \A i \in 1..Len(ast.params) :
                 /\ \E p \in processed :
                       /\ p.ast = ast.params[i] /\ p.type = types[i]
                       /\ p.schema \notin InputNodes
                       /\ NameHint(schemas[p.schema]) = ""
                       /\ schemas[p.schema].description = ""
                 /\ asts[ast.params[i]].type # ""
                 /\ \A j \in 1..Len(asts[ast.params[i]].comment) :
                       asts[ast.params[i]].comment[j].kind # "description"
                 /\ hasStandaloneName(asts[ast.params[i]])
                       => asts[ast.params[i]].type = "ENUM"

\* parse returned the INTERSECTION of a schema with several tags that has a
\* title and a description
C8_Witness ==
    \E e \in MultiTagEntries :
        /\ schemas[e.schema].title # "" /\ schemas[e.schema].description # ""
        /\ hasStandaloneName(asts[e.ast])
        /\ Len(asts[e.ast].params) > 1

-----------------------------------------------------------------------------
(* C9 *)

\* the (node, tag) pairs of the input
NodeTags ==
    UNION {{<<n, typesOfSchema(schemas[n])[i]>> : i \in 1..Len(typesOfSchema(schemas[n]))} :
              n \in InputNodes}

\* C9: the keys of the cache are schema nodes of the input, each under tags the
\* classifier yields for it, so the cache never holds more ASTs than there are
\* (node, tag) pairs.
C9_CacheWithinNodesTimesTags ==
    /\ \A e \in processed : <<e.schema, e.type>> \in NodeTags
    /\ Cardinality(processed) <= Cardinality(NodeTags)

-----------------------------------------------------------------------------
(* C10 *)

\* C10: with unknownAny, no AST of type ANY is in the output of parse.
C10_NoAnyWhenUnknownAny ==
    options.unknownAny => \A a \in Output : asts[a].type # "ANY"

-----------------------------------------------------------------------------
(* C11 *)

\* C11: a schema node that classifies as REFERENCE, alone or next to other
\* tags, at the root or below it, makes parse throw: no call of parse on such
\* a node ever returns, no member of such a node stays in the cache of a run
\* that ends normally, and a run that has thrown has returned no AST.
C11_ReferenceIsFatal ==
    /\ \A e \in parseLog : ~Includes(typesOfSchema(schemas[e.schema]), "REFERENCE")
    /\ \A e \in processed :
          e.type = "REFERENCE" =>
              /\ status \in {"running", "error"}
              /\ Top.op = "enter" /\ Top.schema = e.schema /\ Top.type = "REFERENCE"
    /\ status = "error" => result = 0

\* parse has thrown on a node below the root that is REFERENCE next to another
\* tag, after the root's first property was translated
C11_Witness ==
    /\ status = "error"
    /\ Len(stack) > 2
    /\ Top.type = "REFERENCE"
    /\ stack[Len(stack) - 1].op = "multi"
    /\ Len(stack[Len(stack) - 1].types) > 1
    /\ parseLog # {}

-----------------------------------------------------------------------------
(* C12 *)

\* C12: when parseAsTypeWithCache finds the AST for (schema, tag) in the cache
\* it returns that AST, and the AST's keyName becomes the key name of the call
\* if it had none and the call has one; a keyName it has already is kept.
C12_KeyNameLiftedOnHit ==
    [][CacheHit =>
          /\ \E e \in Lookup(Top.schema, Top.type) : ret' = e.ast
          /\ asts'[ret'].keyName =
                IF asts[ret'].keyName = "" THEN Top.keyName ELSE asts[ret'].keyName]_vars

-----------------------------------------------------------------------------
(* C13 *)

\* the translations, already returned, of an UNNAMED_ENUM schema with tsEnumRef
EnumRefEntries ==
    {e \in processed : /\ e.type = "UNNAMED_ENUM"
                       /\ schemas[e.schema].tsEnumRef # 0
                       /\ asts[e.ast].type # ""}

\* C13: an UNNAMED_ENUM schema with tsEnumRef gets an AST only if the
\* referenced schema translated to an ENUM and every enum value is the literal
\* of one of its members (the run fails otherwise); the AST is a UNION with one
\* TYPE_REFERENCE per enum value, in order, each holding that ENUM AST and the
\* member whose literal is the value.
C13_EnumRefResolved ==
    \A e \in EnumRefEntries :
        LET schema == schemas[e.schema]
            ast == asts[e.ast]
        IN /\ ast.type = "UNION"
           /\ Len(ast.params) = Len(schema.enum)
           /\ \A i \in 1..Len(ast.params) :
                 LET ref == asts[ast.params[i]]
                 IN /\ ref.type = "TYPE_REFERENCE"
                    /\ Len(ref.params) = 1
                    /\ asts[ref.params[1]].type = "ENUM"
                    /\ \E p \in parseLog :
                          p.schema = schema.tsEnumRef /\ p.ast = ref.params[1]
                    /\ ref.refParam \in 1..Len(asts[ref.params[1]].iparams)
                    /\ asts[asts[ref.params[1]].iparams[ref.refParam].ast].type = "LITERAL"
                    /\ asts[asts[ref.params[1]].iparams[ref.refParam].ast].lit
                          = schema.enum[i]

\* a finished run with a UNION of two references, to the second member and
\* then to the first
C13_Witness ==
    /\ status = "done"
    /\ \E e \in EnumRefEntries :
          /\ Len(asts[e.ast].params) = 2
          /\ asts[asts[e.ast].params[1]].refParam = 2
          /\ asts[asts[e.ast].params[2]].refParam = 1

-----------------------------------------------------------------------------
(* C14 *)

\* the calls of parse, already returned, on a schema with enum, tsEnumNames of
\* the same length and a title, and nothing else but perhaps type "string"
NamedEnumEntries ==
    {e \in parseLog :
        /\ schemas[e.schema].title # ""
        /\ schemas[e.schema].hasEnum /\ schemas[e.schema].hasEnumNames
        /\ Len(schemas[e.schema].tsEnumNames) = Len(schemas[e.schema].enum)
        /\ typesOfSchema(schemas[e.schema])
              \in {<<"NAMED_ENUM">>, <<"NAMED_ENUM", "STRING">>}}

\* AST a is an ENUM whose i-th param is (tsEnumNames[i], LITERAL enum[i])
ZippedEnum(a, schema) ==
    /\ asts[a].type = "ENUM"
    /\ Len(asts[a].iparams) = Len(schema.enum)
    /\ \A i \in 1..Len(asts[a].iparams) :
          /\ asts[a].iparams[i].keyName = schema.tsEnumNames[i]
          /\ asts[asts[a].iparams[i].ast].type = "LITERAL"
          /\ asts[asts[a].iparams[i].ast].lit = schema.enum[i]

-----------------------------------------------------------------------------
(* C15 *)

\* the translations, already built, of an ALL_OF schema with a flagged member
ExtendAllOfEntries ==
    {e \in processed :
        /\ e.type = "ALL_OF" /\ asts[e.ast].type # ""
        /\ \E i \in 1..Len(schemas[e.schema].allOf) :
              schemas[schemas[e.schema].allOf[i]].tsExtendAllOf}

\* the position in allOf of the first member that carries tsExtendAllOf
FirstFlagged(schema) ==
    CHOOSE i \in 1..Len(schema.allOf) :
        /\ schemas[schema.allOf[i]].tsExtendAllOf
        /\ \A j \in 1..(i - 1) : ~schemas[schema.allOf[j]].tsExtendAllOf

\* C15: the AST of an ALL_OF schema with a member that carries tsExtendAllOf
\* is an INTERFACE; its params are those of the first flagged member, one per
\* property in order, each holding the translation of the property's schema;
\* its superTypes are the translations of the other members of allOf, in
\* their order in allOf.
C15_ExtendAllOf ==
    \A e \in ExtendAllOfEntries :
        LET schema == schemas[e.schema]
            ast == asts[e.ast]
            first == FirstFlagged(schema)
            target == schemas[schema.allOf[first]]
            others == [j \in 1..(Len(schema.allOf) - 1) |->
                          schema.allOf[IF j < first THEN j ELSE j + 1]]
        IN /\ ast.type = "INTERFACE"
           /\ Len(ast.iparams) >= Len(target.properties)
           /\ (target.additionalProperties = "false" /\ ~target.hasPatternProperties)
                 => Len(ast.iparams) = Len(target.properties)
           /\ \A i \in 1..Len(target.properties) :
                 /\ ast.iparams[i].keyName = target.properties[i].key
                 /\ \E p \in parseLog : /\ p.schema = target.properties[i].node
                                         /\ p.ast = ast.iparams[i].ast
           /\ Len(ast.superTypes) = Len(others)
           /\ \A j \in 1..Len(others) :
                 \E p \in parseLog : p.schema = others[j] /\ p.ast = ast.superTypes[j]

\* a finished run on an allOf of three members, the second and the third
\* flagged: the params are the second member's, the superTypes the first
\* member's and the third's translations
C15_Witness ==
    /\ status = "done"
    /\ \E e \in ExtendAllOfEntries :
          /\ e.ast = result
          /\ Len(schemas[e.schema].allOf) = 3
          /\ FirstFlagged(schemas[e.schema]) = 2
          /\ schemas[schemas[e.schema].allOf[3]].tsExtendAllOf
          /\ Len(asts[e.ast].superTypes) = 2
          /\ Len(asts[e.ast].iparams) = 1

-----------------------------------------------------------------------------
(* C16 *)

\* the translations, already built, of a schema for its tag UNION
TypeListEntries == {e \in processed : e.type = "UNION" /\ asts[e.ast].type # ""}

\* C16: the AST of a schema whose type is a list of type names is a UNION
\* with the schema's description as comment and the standaloneName made from
\* its title or id, with one param per type name in list order; each param
\* is the translation of a schema object that is no input node, has that one
\* type and no title, id or description, and carries no standaloneName and no
\* comment; a member for a primitive type name has that type's AST type.
C16_UnionOfTypeList ==
    \A e \in TypeListEntries :
        LET schema == schemas[e.schema]
            ast == asts[e.ast]
        IN /\ ast.type = "UNION"
           /\ Len(ast.comment) >= Len(DescriptionComment(schema))
           /\ SubSeq(ast.comment, 1, Len(DescriptionComment(schema)))
                 = DescriptionComment(schema)
           /\ NameHint(schema) # ""
                 => ast.standaloneName.base = toSafeString(NameHint(schema)).base
           /\ Len(ast.params) = Len(schema.type)
           /\ \A i \in 1..Len(ast.params) :
                 /\ \E p \in parseLog :
                       /\ p.ast = ast.params[i]
                       /\ p.schema \notin InputNodes
                       /\ schemas[p.schema].type = <<schema.type[i]>>
                       /\ ~schemas[p.schema].typeIsList
                       /\ schemas[p.schema].title = "" /\ schemas[p.schema].id = ""
                       /\ schemas[p.schema].description = ""
                 /\ ~hasStandaloneName(asts[ast.params[i]])
                 /\ asts[ast.params[i]].comment = <<>>
                 /\ (typesOfSchema(schema) = <<"UNION">>
                        /\ schema.type[i] \notin {"array", "object"})
                       => asts[ast.params[i]].type = PrimitiveTag(schema.type[i])

\* a finished run on the root {type: [string, number], title: StrOrNum} with
\* a description: a named UNION of STRING and NUMBER
C16_Witness ==
    /\ status = "done"
    /\ \E e \in TypeListEntries :
          /\ e.schema = 1 /\ e.ast = result
          /\ schemas[1].type = <<"string", "number">>
          /\ schemas[1].title = "StrOrNum" /\ schemas[1].description # ""
          /\ hasStandaloneName(asts[result])
          /\ Len(asts[result].params) = 2
          /\ asts[asts[result].params[1]].type = "STRING"
          /\ asts[asts[result].params[2]].type = "NUMBER"

-----------------------------------------------------------------------------
(* C17 *)

\* the number of the classifier rule that yields a tag
TagRank(tag) ==
    CASE tag = "CUSTOM_TYPE" -> 1
      [] tag = "REFERENCE" -> 2
      [] tag = "ALL_OF" -> 3
      [] tag = "ANY_OF" -> 4
      [] tag = "ONE_OF" -> 5
      [] tag \in {"NAMED_ENUM", "UNNAMED_ENUM"} -> 6
      [] tag = "UNION" -> 7
      [] tag \in {"UNTYPED_ARRAY", "TYPED_ARRAY"} -> 8
      [] tag \in {"NAMED_SCHEMA", "UNNAMED_SCHEMA"} -> 9
      [] tag \in {"STRING", "NUMBER", "BOOLEAN", "NULL", "NEVER", "OBJECT"} -> 10
      [] OTHER -> 0

\* none of the attributes the rules look at is present
NoRuleFires(s) ==
    /\ s.tsType = "" /\ s.ref = ""
    /\ ~s.hasAllOf /\ ~s.hasAnyOf /\ ~s.hasOneOf /\ ~s.hasEnum
    /\ ~s.hasType /\ s.itemsKind = "absent"
    /\ ~s.hasProperties /\ ~s.hasPatternProperties /\ ~s.hasExtends /\ ~s.hasRequired
    /\ s.additionalProperties = "absent" /\ s.propertyNames = 0

-----------------------------------------------------------------------------
(* C18 *)

\* two schema objects have the same attributes, wherever they are in the graph
SameAttributes(s, t) == [s EXCEPT !.parent = 0] = [t EXCEPT !.parent = 0]

-----------------------------------------------------------------------------
(* C19 *)

\* the keys under which node n appears in the definitions of any input node
DefinitionKeysOf(n) ==
    UNION {{schemas[m].definitions[i].key :
               i \in {j \in 1..Len(schemas[m].definitions) :
                          schemas[m].definitions[j].node = n}} : m \in InputNodes}

\* the translations, already built, of an input node without title and id
\* that appears under a definitions key, for a tag whose AST is named after
\* the definition key
DefinitionEntries ==
    {e \in processed :
        /\ e.schema \in InputNodes /\ asts[e.ast].type # ""
        /\ NameHint(schemas[e.schema]) = ""
        /\ e.type \in {"UNNAMED_SCHEMA", "STRING"}
        /\ DefinitionKeysOf(e.schema) # {}}

\* C19: the definitions index of the root has an entry for every node that
\* appears under a definitions key at any depth, so that the AST of such a
\* node without title and id is named after its definition key.
C19_DefinitionsAtAnyDepth ==
    \A e \in DefinitionEntries :
        /\ keyNameFromDefinitionOf(schemas, e.schema) \in DefinitionKeysOf(e.schema)
        /\ hasStandaloneName(asts[e.ast])

-----------------------------------------------------------------------------
(* C20 *)

\* the translations, already built, of an array schema without items
UntypedArrays == {e \in processed : e.type = "UNTYPED_ARRAY" /\ asts[e.ast].type # ""}

\* C20: for an array schema without items, with min its minItems (0 when
\* absent) and max its maxItems: if min > 0 or there is a max, the AST is a
\* TUPLE of exactly max(min, max) elements, each the ANY constant (the UNKNOWN
\* constant under unknownAny), whose spreadParam is that constant if there is
\* no max and absent if there is one; otherwise the AST is an ARRAY of that
\* constant.
C20_UntypedArray ==
    \A e \in UntypedArrays :
        LET schema == schemas[e.schema]
            ast == asts[e.ast]
            min == IF schema.minItems < 0 THEN 0 ELSE schema.minItems
            bounded == schema.maxItems >= 0
            any == IF options.unknownAny THEN T_UNKNOWN ELSE T_ANY
        IN /\ asts[any].type = IF options.unknownAny THEN "UNKNOWN" ELSE "ANY"
           /\ IF min > 0 \/ bounded
              THEN /\ ast.type = "TUPLE"
                   /\ Len(ast.params) = IF bounded /\ schema.maxItems > min
                                        THEN schema.maxItems ELSE min
                   /\ \A i \in 1..Len(ast.params) : ast.params[i] = any
                   /\ ast.spreadParam = IF bounded THEN 0 ELSE any
              ELSE /\ ast.type = "ARRAY"
                   /\ ast.params = <<any>>
                   /\ ast.spreadParam = 0

\* a finished run on an array without items, with minItems 2 and no maxItems:
\* a TUPLE of two ANY with a spread
C20_Witness ==
    /\ status = "done" /\ ~options.unknownAny
    /\ \E e \in UntypedArrays :
          /\ e.ast = result
          /\ schemas[e.schema].minItems = 2 /\ schemas[e.schema].maxItems = -1
          /\ asts[result].type = "TUPLE"
          /\ asts[result].params = <<T_ANY, T_ANY>>
          /\ asts[result].spreadParam = T_ANY

-----------------------------------------------------------------------------
(* C21 *)

\* the translations, already built, of an array schema whose items is a list
ItemListTuples ==
    {e \in processed : /\ e.type = "TYPED_ARRAY" /\ asts[e.ast].type # ""
                       /\ schemas[e.schema].itemsKind = "list"}

\* parse on schema node n returned AST a
TranslationOf(n, a) == \E p \in parseLog : p.schema = n /\ p.ast = a

\* C21: the AST of an array schema whose items is a list is a TUPLE with one
\* param per listed item, in order, each the translation of that item; its
\* spreadParam is absent when additionalItems is false or absent, the ANY
\* constant (UNKNOWN under unknownAny) when it is true, and the translation of
\* additionalItems when that is a schema, whatever minItems and maxItems are.
C21_TupleOfItemList ==
    \A e \in ItemListTuples :
        LET schema == schemas[e.schema]
            ast == asts[e.ast]
        IN /\ ast.type = "TUPLE"
           /\ Len(ast.params) = Len(schema.items)
           /\ \A i \in 1..Len(ast.params) : TranslationOf(schema.items[i], ast.params[i])
           /\ CASE schema.additionalItems = "true" ->
                       ast.spreadParam = (IF options.unknownAny THEN T_UNKNOWN ELSE T_ANY)
                [] schema.additionalItems = "schema" ->
                       TranslationOf(schema.additionalItemsNode, ast.spreadParam)
                [] OTHER -> ast.spreadParam = 0

\* a finished run on a list of two items of different types with a schema as
\* additionalItems
C21_Witness ==
    /\ status = "done"
    /\ \E e \in ItemListTuples :
          /\ e.ast = result
          /\ Len(asts[result].params) = 2
          /\ asts[asts[result].params[1]].type = "STRING"
          /\ asts[asts[result].params[2]].type = "NUMBER"
          /\ schemas[e.schema].additionalItems = "schema"
          /\ asts[result].spreadParam \notin {0, T_ANY, T_UNKNOWN}

-----------------------------------------------------------------------------
(* C22 *)

\* the translations, already built, of an object schema whose params are not
\* rearranged for propertyNames
PlainInterfaces ==
    {e \in processed :
        /\ e.type \in {"NAMED_SCHEMA", "UNNAMED_SCHEMA"}
        /\ asts[e.ast].type = "INTERFACE"
        /\ ~UsesPropertyNames(schemas, schemas[e.schema])}

\* C22: in the param list of an interface the patternProperties entries come
\* after the properties, in order, each with the translation of its schema.
\* If additionalProperties is absent or false and there is exactly one entry,
\* its param has the index key as keyName and isPatternProperty false; in
\* every other case each entry's param has the pattern as keyName and
\* isPatternProperty true.
C22_PatternParams ==
    \A e \in PlainInterfaces :
        LET schema == schemas[e.schema]
            params == asts[e.ast].iparams
            np == Len(schema.properties)
            entries == schema.patternProperties
            catchAll == /\ schema.additionalProperties \in {"absent", "false"}
                        /\ Len(entries) = 1
        IN /\ Len(params) >= np + Len(entries)
           /\ \A i \in 1..Len(entries) :
                 /\ TranslationOf(entries[i].node, params[np + i].ast)
                 /\ IF catchAll
                    THEN /\ params[np + i].keyName = INDEX_KEY_NAME
                         /\ ~params[np + i].isPatternProperty
                    ELSE /\ params[np + i].keyName = entries[i].key
                         /\ params[np + i].isPatternProperty

\* a finished run on an object schema with one property, one patternProperties
\* entry and additionalProperties absent: the entry is the catch-all param
C22_Witness ==
    /\ status = "done"
    /\ \E e \in PlainInterfaces :
          /\ e.ast = result
          /\ schemas[e.schema].additionalProperties = "absent"
          /\ Len(schemas[e.schema].properties) = 1
          /\ Len(schemas[e.schema].patternProperties) = 1
          /\ asts[result].iparams[2].keyName = INDEX_KEY_NAME
          /\ ~asts[result].iparams[2].isPatternProperty

-----------------------------------------------------------------------------
(* C23 *)

\* the keys of a list of entries, in order
KeysOf(entries) == [i \in 1..Len(entries) |-> entries[i].key]

\* the number of params parseSchema makes before it looks at
\* additionalProperties
ParamsBefore(schema) ==
    Len(schema.properties) + Len(schema.patternProperties)
    + (IF options.unreachableDefinitions THEN Len(schema.definitions) ELSE 0)

\* the key of the schema from which parseSchema makes its i-th param, for i
\* up to ParamsBefore(schema)
KeyBefore(schema, i) ==
    (KeysOf(schema.properties) \o KeysOf(schema.patternProperties)
        \o KeysOf(schema.definitions))[i]

\* the positions of the params whose keyName is the index key
CatchAlls(params) == {i \in 1..Len(params) : params[i].keyName = INDEX_KEY_NAME}

\* C23: in the param list of an interface, additionalProperties true adds one
\* last param with the index key whose ast is the ANY constant for additional
\* properties (the UNKNOWN one under unknownAny), and patternProperties has
\* then supplied no param of its own with the index key, since it does so only
\* when additionalProperties is absent or false; additionalProperties absent or
\* false adds nothing; a schema adds one last param with the index key whose
\* ast is the translation of that schema.
C23_AdditionalPropertiesParam ==
    \A e \in PlainInterfaces :
        LET schema == schemas[e.schema]
            params == asts[e.ast].iparams
            n == ParamsBefore(schema)
        IN CASE schema.additionalProperties = "true" ->
                   /\ Len(params) = n + 1
                   /\ n + 1 \in CatchAlls(params)
                   /\ \A i \in CatchAlls(params) \ {n + 1} :
                         params[i].keyName = KeyBefore(schema, i)
                   /\ params[n + 1].ast = (IF options.unknownAny
                                             THEN T_UNKNOWN_ADDITIONAL_PROPERTIES
                                             ELSE T_ANY_ADDITIONAL_PROPERTIES)
                   /\ asts[params[n + 1].ast].type
                         = (IF options.unknownAny THEN "UNKNOWN" ELSE "ANY")
             [] schema.additionalProperties = "schema" ->
                   /\ Len(params) = n + 1
                   /\ n + 1 \in CatchAlls(params)
                   /\ \A i \in CatchAlls(params) \ {n + 1} :
                         params[i].keyName = KeyBefore(schema, i)
                   /\ TranslationOf(schema.additionalPropertiesNode, params[n + 1].ast)
             [] OTHER -> Len(params) = n

\* a finished run on an object schema with one patternProperties entry and
\* additionalProperties true: the entry keeps its pattern, ANY is appended
C23_Witness ==
    /\ status = "done" /\ ~options.unknownAny
    /\ \E e \in PlainInterfaces :
          /\ e.ast = result
          /\ schemas[e.schema].additionalProperties = "true"
          /\ Len(schemas[e.schema].patternProperties) = 1
          /\ asts[result].iparams[Len(asts[result].iparams)].ast
                = T_ANY_ADDITIONAL_PROPERTIES

-----------------------------------------------------------------------------
(* C24 *)

\* the translations, already built, of an object schema with a propertyNames
\* schema that is not pattern-only or format-only
MappedEntries ==
    {e \in processed :
        /\ e.type \in {"NAMED_SCHEMA", "UNNAMED_SCHEMA"}
        /\ asts[e.ast].type # ""
        /\ UsesPropertyNames(schemas, schemas[e.schema])}

\* the keys of the params of a schema that are no catch-all: its properties,
\* its patternProperties unless the one entry is the catch-all, and its
\* definitions under unreachableDefinitions
ConcreteKeys(schema) ==
    [i \in 1..Len(schema.properties) |-> schema.properties[i].key]
    \o (IF schema.additionalProperties \in {"absent", "false"}
            /\ Len(schema.patternProperties) = 1
         THEN <<>>
         ELSE [i \in 1..Len(schema.patternProperties) |-> schema.patternProperties[i].key])
    \o (IF options.unreachableDefinitions
         THEN [i \in 1..Len(schema.definitions) |-> schema.definitions[i].key]
         ELSE <<>>)

\* AST object a is a mapped-key INTERFACE for the schema: paramsKeyType is the
\* translation of propertyNames, and its one param is the catch-all, with the
\* key type's name and the concrete keys as the keys to exclude
IsMappedInterface(a, schema) ==
    /\ a.type = "INTERFACE"
    /\ TranslationOf(schema.propertyNames, a.paramsKeyType)
    /\ Len(a.iparams) = 1
    /\ a.iparams[1].mappedOf = asts[a.paramsKeyType].standaloneName
    /\ a.iparams[1].mappedOf # NoName
    /\ a.iparams[1].mappedExclude = ConcreteKeys(schema)
    /\ schema.additionalProperties = "schema"
          => TranslationOf(schema.additionalPropertiesNode, a.iparams[1].ast)

\* C24: the AST of an object schema with a propertyNames schema of the enum
\* kind is, when the schema has no param but the catch-all, one mapped-key
\* INTERFACE with exactly the catch-all param; otherwise an INTERSECTION of
\* exactly two INTERFACEs, the mapped-key one, which excludes the concrete
\* keys, and a plain one that holds the concrete params in order.  The outer
\* AST has the name made from the schema's title or id.
C24_MappedInterface ==
    \A e \in MappedEntries :
        LET schema == schemas[e.schema]
            ast == asts[e.ast]
            keys == ConcreteKeys(schema)
        IN /\ NameHint(schema) # ""
                 => ast.standaloneName.base = toSafeString(NameHint(schema)).base
           /\ IF keys = <<>>
              THEN IsMappedInterface(ast, schema)
              ELSE /\ ast.type = "INTERSECTION"
                   /\ Len(ast.params) = 2
                   /\ IsMappedInterface(asts[ast.params[1]], schema)
                   /\ asts[ast.params[2]].type = "INTERFACE"
                   /\ asts[ast.params[2]].paramsKeyType = 0
                   /\ Len(asts[ast.params[2]].iparams) = Len(keys)
                   /\ \A i \in 1..Len(keys) :
                         asts[ast.params[2]].iparams[i].keyName = keys[i]

\* a finished run on a schema with a property, a patternProperties entry and
\* a schema as additionalProperties: an INTERSECTION whose mapped-key
\* INTERFACE excludes two keys
C24_Witness ==
    /\ status = "done"
    /\ \E e \in MappedEntries :
          /\ e.ast = result
          /\ asts[result].type = "INTERSECTION"
          /\ hasStandaloneName(asts[result])
          /\ schemas[e.schema].additionalProperties = "schema"
          /\ Len(asts[asts[result].params[1]].iparams[1].mappedExclude) = 2

-----------------------------------------------------------------------------
(* C25 *)

\* the comment of AST a holds the note that it was referenced by the schema
\* named parent through the patternProperties entry key
HasPatternNote(a, parent, key) ==
    \E j \in 1..Len(asts[a].comment) :
        /\ asts[a].comment[j].kind = "patternProperty"
        /\ asts[a].comment[j].of = parent
        /\ asts[a].comment[j].key = key

\* C25: once the run has finished, the AST of every param made from a
\* patternProperties entry has the origin note with the parent's name and the
\* pattern in its comment, also when the entry refers to a schema that was
\* still being translated when the note was written.
C25_PatternNoteKept ==
    status = "done" =>
        \A e \in PlainInterfaces :
            \A i \in 1..Len(schemas[e.schema].patternProperties) :
                HasPatternNote(asts[e.ast].iparams[Len(schemas[e.schema].properties) + i].ast,
                               asts[e.ast].standaloneName,
                               schemas[e.schema].patternProperties[i].key)

-----------------------------------------------------------------------------
(* C26 *)

\* the ASTs that are reachable from one of their own children
OnCycle == {a \in 1..Len(asts) : a \in ReachableFrom(asts, ASTChildren(asts, a))}

\* C26: when parse on the root has returned, every AST in the cache and every
\* AST reachable from the returned AST has a type: no empty object that was
\* put into the cache is left.
C26_NoPlaceholderLeft ==
    status = "done" =>
        /\ \A e \in processed : asts[e.ast].type # ""
        /\ \A a \in Output : asts[a].type # ""

\* a finished run whose output holds an AST that refers to itself: its empty
\* object was handed out from the cache before it was filled
C26_Witness ==
    /\ status = "done"
    /\ Output \cap OnCycle # {}
    /\ Cardinality(processed) >= 3

-----------------------------------------------------------------------------
(* C27 *)

\* the AST on which a check has just made the run fail (0: none)
RejectedAST ==
    IF /\ status = "error" /\ ret # 0 /\ stack # <<>>
       /\ Top.op = "body" /\ Top.todo # <<>>
       /\ Current.role \in {"allOfSuper", "propertyNames", "enumRef"}
    THEN ret ELSE 0

\* the AST of cache entry e passes the check of the role once it is filled:
\* it gets a standaloneName from the title or id and, for a supertype, is
\* the INTERFACE of an object schema; for tsEnumRef it is the ENUM of a named
\* enum
PassesWhenFilled(e, role) ==
    /\ NameHint(schemas[e.schema]) # ""
    /\ role = "allOfSuper" =>
          /\ e.type \in {"NAMED_SCHEMA", "UNNAMED_SCHEMA"}
          /\ ~UsesPropertyNames(schemas, schemas[e.schema])
    /\ role = "enumRef" => e.type = "NAMED_ENUM"

\* C27: no check makes the run fail on an AST that is still the empty object
\* of a schema being translated and that passes the same check once it is
\* filled.
C27_NoCheckOnPlaceholder ==
    \A e \in processed :
        (e.ast = RejectedAST /\ asts[e.ast].type = "")
            => ~PassesWhenFilled(e, Current.role)

-----------------------------------------------------------------------------
(* C28 *)

\* a key of the entries is spelled like the index key
SpelledLikeIndex(entries) == \E i \in 1..Len(entries) : entries[i].key = INDEX_KEY_NAME

\* C28: whenever no property and no patternProperties entry of an object
\* schema has a key spelled like the index key, the param list of its
\* interface has at most one param whose keyName is the index key.
C28_OneCatchAll ==
    \A e \in PlainInterfaces :
        (/\ ~SpelledLikeIndex(schemas[e.schema].properties)
         /\ ~SpelledLikeIndex(schemas[e.schema].patternProperties))
            => Cardinality(CatchAlls(asts[e.ast].iparams)) <= 1

\* C28, amended: whenever no property, no patternProperties entry and no
\* definition of an object schema has a key spelled like the index key, the
\* param list of its interface has at most one param whose keyName is the
\* index key.
C28_OneCatchAllOfPlainKeys ==
    \A e \in PlainInterfaces :
        (/\ ~SpelledLikeIndex(schemas[e.schema].properties)
         /\ ~SpelledLikeIndex(schemas[e.schema].patternProperties)
         /\ ~SpelledLikeIndex(schemas[e.schema].definitions))
            => Cardinality(CatchAlls(asts[e.ast].iparams)) <= 1

\* a finished run on an object schema with a property, one patternProperties
\* entry, a definition under unreachableDefinitions and a schema as
\* additionalProperties, no key spelled like the index key: the last of the
\* four params is the only catch-all
C28_Witness ==
    /\ status = "done" /\ options.unreachableDefinitions
    /\ \E e \in PlainInterfaces :
          /\ e.ast = result
          /\ schemas[e.schema].additionalProperties = "schema"
          /\ Len(schemas[e.schema].properties) = 1
          /\ Len(schemas[e.schema].patternProperties) = 1
          /\ Len(schemas[e.schema].definitions) = 1
          /\ ~SpelledLikeIndex(schemas[e.schema].properties)
          /\ ~SpelledLikeIndex(schemas[e.schema].patternProperties)
          /\ ~SpelledLikeIndex(schemas[e.schema].definitions)
          /\ CatchAlls(asts[result].iparams) = {4}

====
